---- MODULE Spec2Model ----
(***************************************************************************)
(* A model of the protocol-translation core of the SupplyGraph A2A SDK:    *)
(*   - OpenAIA2AReasoningSSEAdapter.wrap_stream (the reasoning stream      *)
(*     re-emitter, adapters/openai_a2a/reasoning_sse_adapter.py),          *)
(*   - parse_sse (the SSE event decoder, utils/stream_parser.py),          *)
(*   - AgentClient._request_with_retry (the transport client,              *)
(*     client/agent_client.py).                                            *)
(* Each component is a state machine over its own variables; the three     *)
(* specifications WrapSpec, SseSpec and ClientSpec run one component each  *)
(* from the common initial state.                                          *)
(***************************************************************************)
EXTENDS Integers, Sequences, FiniteSets, TLC

VARIABLES
    \* ---- wrap_stream.generator (one wrapped stream)
    w_pc,          \* position of the generator: "loop", "delta", "step",
                   \* "completed", "done"
    sg_evt,        \* the loop variable sg_evt (NoEvent before the first one)
    w_taken,       \* number of input events taken from sg_sse_stream
    reasoning_lines, \* the local reasoning_lines
    w_li,          \* position of the inner for-loop over reasoning_lines
    step_index,    \* the local step_index
    delta_index,   \* the local delta_index
    w_out,         \* the frames yielded so far, in order
    w_mark,        \* Len(w_out) when sg_evt was taken
    w_skipped,     \* number of taken events that produced no frame
    w_ended,       \* TRUE once an "end" event was taken
    \* ---- AgentClient: one call of _request_with_retry
    c_pc,          \* "idle", "attempting" (at the head of the for-loop),
                   \* "returned", "raised"
    stream,        \* the stream argument
    max_retries,   \* self.max_retries
    backoff_factor, \* self.backoff_factor (seconds)
    attempt,       \* the loop variable attempt (0 before the first iteration)
    last_error,    \* the local last_error
    c_resp,        \* the outcome of the latest HTTP attempt
    c_hist,        \* the outcome of every HTTP attempt, in order
    c_trace,       \* requests.request and time.sleep calls made, in order
    c_result,      \* what the call returned or raised
    api_key,       \* self.api_key
    headers,       \* the local headers
    c_sent,        \* the headers of every requests.request call, in order
    \* ---- parse_sse: one decoded stream
    s_pc,          \* "reading" (in the for-loop over iter_lines), "done"
    event_type,    \* the local event_type
    data_buffer,   \* the local data_buffer
    s_read,        \* number of lines read from response.iter_lines
    s_out,         \* the events yielded so far, in order
    s_flushed,     \* the data_buffer of every flush, in order
    s_block,       \* source lines of the block being read (data: and bare)
    s_type,        \* text of the most recent event: line of the source
    s_blocks,      \* the source's closed blocks that held such lines
    \* ---- the normalizers: one envelope given to each of the three
    n_env,         \* the gateway envelope (NoEnvelope before it is chosen)
    n_agent,       \* the agent_id the adapters are built with
    n_run,         \* what build_openai_run returned (NoObject before)
    n_status,      \* what build_openai_status returned
    n_result,      \* what build_openai_result returned
    \* ---- AgentClient: one call of a public operation
    a_call,        \* the operation called and its arguments (NoCall before)
    \* ---- one normalizer called twice on one envelope
    d_fn,          \* the normalizer called: "run", "status", "result"
    d_env,         \* the envelope given to both calls
    d_now,         \* what time.time() reads now (epoch seconds)
    d_first,       \* what the first call returned (NoObject before)
    d_second,      \* what the second call returned
    \* ---- two invocations interleaved on one instance: two generators of
    \* ---- one OpenAIA2AReasoningSSEAdapter, or two _request_with_retry
    \* ---- calls of one AgentClient
    p_mode,        \* "none", "streams", "requests"
    p_pc,          \* per generator: "loop", "delta", "step", "completed", "done"
    p_evts,        \* per generator: the events taken from its sg_sse_stream
    p_lines,       \* per generator: the local reasoning_lines
    p_li,          \* per generator: position of the inner for-loop
    p_step_index,  \* per frame of locals: step_index
    p_delta_index, \* per frame of locals: delta_index
    p_out,         \* per generator: the frames yielded so far
    q_pc,          \* per call: "idle", "attempting", "done"
    q_stream,      \* per call: the stream argument
    q_attempt,     \* per frame of locals: attempt
    q_last_error,  \* per frame of locals: last_error
    q_hist,        \* per call: the outcome of each of its HTTP attempts
    q_result,      \* per call: what it returned or raised
    \* ---- OpenAIA2AAdapter: one call of manifest, run, status, result or
    \* ---- stream, and the consumption of the generator stream returns
    o_pc,          \* "idle", "returned", "streaming", "exhausted", "raised"
    o_call,        \* the operation called and its arguments
    o_client,      \* what self.client did (NoResult when it was not called)
    o_result,      \* what the adapter's method returned or raised
    o_taken,       \* number of events the returned generator has taken
    o_step_index,  \* step_index of the returned generator
    o_delta_index, \* delta_index of the returned generator
    o_frames,      \* the frames the consumer has received
    o_raised       \* the exception the consumer's next() raised (NoError)

wvars == <<w_pc, sg_evt, w_taken, reasoning_lines, w_li, step_index,
           delta_index, w_out, w_mark, w_skipped, w_ended>>

svars == <<s_pc, event_type, data_buffer, s_read, s_out, s_flushed,
          s_block, s_type, s_blocks>>

avars == <<a_call>>

dvars == <<d_fn, d_env, d_now, d_first, d_second>>

\* the variables of the components that follow the five above
pvars == <<p_mode, p_pc, p_evts, p_lines, p_li, p_step_index, p_delta_index,
           p_out, q_pc, q_stream, q_attempt, q_last_error, q_hist, q_result>>

ovars == <<o_pc, o_call, o_client, o_result, o_taken, o_step_index,
           o_delta_index, o_frames, o_raised>>

xvars == <<dvars, pvars, ovars>>

nvars == <<n_env, n_agent, n_run, n_status, n_result>>

cvars == <<c_pc, stream, max_retries, backoff_factor, attempt, last_error,
           c_resp, c_hist, c_trace, c_result, api_key, headers, c_sent>>

\* the variables of the first five components
oldvars == <<wvars, cvars, svars, nvars, avars>>

----------------------------------------------------------------------------
(* Bounds of the model *)

\* longest input event sequence given to wrap_stream
MaxEvents == 3
\* longest reasoning list carried by one input event
MaxLines == 2
\* largest max_retries a client is configured with
MaxRetriesBound == 3
\* longest line sequence read from one response
MaxSrcLines == 5

----------------------------------------------------------------------------
(* Values *)

\* A reasoning list element: a Python str (k = "s") or a Python int
\* (k = "n"); v is the text str() gives for it.
LineVals == {[k |-> "s", v |-> "A"], [k |-> "n", v |-> "7"]}

\* str(x) for a reasoning list element
Str(x) == x.v

RECURSIVE SeqsUpTo(_, _)
SeqsUpTo(S, n) ==
    IF n = 0 THEN {<<>>}
    ELSE LET shorter == SeqsUpTo(S, n - 1)
         IN  shorter \cup {Append(s, x) : s \in {t \in shorter : Len(t) = n - 1}, x \in S}

ReasoningLists == SeqsUpTo(LineVals, MaxLines)

\* the value found under a "reasoning" key: a list, or anything else
\* (absent, None, a string)
NotAList == [islist |-> FALSE, items |-> <<>>]
AList(l) == [islist |-> TRUE, items |-> l]

\* the value found under the payload's "data" key
NoData == [isdict |-> FALSE, reasoning |-> NotAList]

\* payload shapes of a SupplyGraph SSE event
DirectPayload(l) == [isdict |-> TRUE, reasoning |-> AList(l), data |-> NoData]
NestedPayload(l) == [isdict |-> TRUE, reasoning |-> NotAList,
                     data |-> [isdict |-> TRUE, reasoning |-> AList(l)]]
PlainPayload == [isdict |-> TRUE, reasoning |-> NotAList, data |-> NoData]
TextPayload == [isdict |-> FALSE, reasoning |-> NotAList, data |-> NoData]

Payloads ==
    {DirectPayload(l) : l \in ReasoningLists}
    \cup {NestedPayload(l) : l \in ReasoningLists}
    \cup {PlainPayload, TextPayload}

\* the items of sg_sse_stream
SgEvents ==
    {[event |-> "stream", data |-> p] : p \in Payloads}
    \cup {[event |-> "end", data |-> TextPayload]}
    \cup {[event |-> "status", data |-> DirectPayload(<<[k |-> "s", v |-> "A"]>>)]}

NoEvent == [event |-> "", data |-> TextPayload]

RECURSIVE MapStr(_)
MapStr(l) == IF l = <<>> THEN <<>> ELSE <<Str(Head(l))>> \o MapStr(Tail(l))

\* _extract_reasoning_lines(payload)
ExtractNestedOnly(payload) ==
    IF payload.isdict /\ payload.data.isdict /\ payload.data.reasoning.islist
    THEN MapStr(payload.data.reasoning.items)
    ELSE <<>>
ExtractReasoningLines(payload) ==
    IF payload.isdict /\ payload.reasoning.islist
    THEN MapStr(payload.reasoning.items)
    ELSE IF payload.isdict /\ payload.data.isdict /\ payload.data.reasoning.islist
         THEN MapStr(payload.data.reasoning.items)
         ELSE <<>>

\* the bodies handed to _format_sse (the timestamp field is left out: no
\* control flow reads it)
DeltaFrame(line, si, di) ==
    [event |-> "step.delta", thinking |-> line, index |-> si, delta_index |-> di]
StepFrame(lines, si) ==
    [event |-> "step", thinking |-> lines, index |-> si]
CompletedFrame == [event |-> "completed", status |-> "completed"]

----------------------------------------------------------------------------
(* wrap_stream *)

WrapInit ==
    /\ w_pc = "loop"
    /\ sg_evt = NoEvent
    /\ w_taken = 0
    /\ reasoning_lines = <<>>
    /\ w_li = 1
    /\ step_index = 0
    /\ delta_index = 0
    /\ w_out = <<>>
    /\ w_mark = 0
    /\ w_skipped = 0
    /\ w_ended = FALSE

\* lines 99-100: `break` leaves the loop for the completed frame
AfterEndKeepsReading == "loop"
AfterEndReturns == "done"
AfterEnd == "completed"

\* lines 103-104: `continue` on an event whose type is not "stream"
AfterOtherEventBreaks == "completed"
AfterOtherEvent == "loop"

\* for sg_evt in sg_sse_stream: the source yields e; lines 95-110
WrapTakeEvent ==
    /\ w_pc = "loop"
    /\ w_taken < MaxEvents
    /\ \E e \in SgEvents :
        /\ sg_evt' = e
        /\ w_taken' = w_taken + 1
        /\ w_mark' = Len(w_out)
        /\ IF e.event = "end"
           THEN /\ w_pc' = AfterEnd
                /\ w_ended' = TRUE
                /\ UNCHANGED <<reasoning_lines, w_li, w_skipped>>
           ELSE IF e.event # "stream"
           THEN /\ w_pc' = AfterOtherEvent
                /\ w_skipped' = w_skipped + 1
                /\ UNCHANGED <<reasoning_lines, w_li, w_ended>>
           ELSE LET lines == ExtractReasoningLines(e.data)
                IN  /\ reasoning_lines' = lines
                    /\ w_li' = 1
                    /\ w_pc' = IF lines = <<>> THEN "loop" ELSE "delta"
                    /\ w_skipped' = IF lines = <<>> THEN w_skipped + 1 ELSE w_skipped
                    /\ UNCHANGED w_ended
    /\ UNCHANGED <<step_index, delta_index, w_out>>
    /\ UNCHANGED <<cvars, svars, nvars, avars, xvars>>

\* for sg_evt in sg_sse_stream: the source is exhausted
WrapSourceEnd ==
    /\ w_pc = "loop"
    /\ w_pc' = "completed"
    /\ UNCHANGED <<sg_evt, w_taken, reasoning_lines, w_li, step_index,
                   delta_index, w_out, w_mark, w_skipped, w_ended>>
    /\ UNCHANGED <<cvars, svars, nvars, avars, xvars>>

\* line 124: delta_index += 1 (global within the stream)
NextDeltaIndexPerStep == IF w_li >= Len(reasoning_lines) THEN 0 ELSE delta_index + 1
NextDeltaIndex == delta_index + 1

\* lines 113-125: one step.delta per reasoning line
WrapYieldDelta ==
    /\ w_pc = "delta"
    /\ w_out' = Append(w_out, DeltaFrame(reasoning_lines[w_li], step_index, delta_index))
    /\ delta_index' = NextDeltaIndex
    /\ w_li' = w_li + 1
    /\ w_pc' = IF w_li >= Len(reasoning_lines) THEN "step" ELSE "delta"
    /\ UNCHANGED <<sg_evt, w_taken, reasoning_lines, step_index, w_mark,
                   w_skipped, w_ended>>
    /\ UNCHANGED <<cvars, svars, nvars, avars, xvars>>

\* lines 128-136: the consolidated step frame
WrapYieldStep ==
    /\ w_pc = "step"
    /\ w_out' = Append(w_out, StepFrame(reasoning_lines, step_index))
    /\ step_index' = step_index + 1
    /\ w_pc' = "loop"
    /\ UNCHANGED <<sg_evt, w_taken, reasoning_lines, w_li, delta_index, w_mark,
                   w_skipped, w_ended>>
    /\ UNCHANGED <<cvars, svars, nvars, avars, xvars>>

\* lines 140-144: the final completed frame, then the generator returns
WrapYieldCompleted ==
    /\ w_pc = "completed"
    /\ w_out' = Append(w_out, CompletedFrame)
    /\ w_pc' = "done"
    /\ UNCHANGED <<sg_evt, w_taken, reasoning_lines, w_li, step_index,
                   delta_index, w_mark, w_skipped, w_ended>>
    /\ UNCHANGED <<cvars, svars, nvars, avars, xvars>>

WrapNext ==
    \/ WrapTakeEvent
    \/ WrapSourceEnd
    \/ WrapYieldDelta
    \/ WrapYieldStep
    \/ WrapYieldCompleted

----------------------------------------------------------------------------
(* AgentClient._request_with_retry *)

\* a key missing from a JSON object, a header missing from a response
Absent == "<absent>"

\* http_status=None of a SupplyGraphAPIError
NoStatus == 0

A2A_NON_FATAL_CODES == {"WAITING_USER", "INTERPRETING"}
FatalCodesWithoutCancelled == {"INVALID_REQUEST", "UNAUTHORIZED", "TASK_FAILED"}
FatalCodesWithWaitingUser ==
    {"INVALID_REQUEST", "UNAUTHORIZED", "TASK_FAILED", "TASK_CANCELLED", "WAITING_USER"}
A2A_FATAL_CODES == {"INVALID_REQUEST", "UNAUTHORIZED", "TASK_FAILED", "TASK_CANCELLED"}

\* the business check made whatever the success flag
NotSuccessIgnored(body) == TRUE

\* lines 145, 148: `not success` with success = data.get("success", True);
\* the flag is true, false, null or missing
NotSuccess(body) == body.success \in {"false", "null"}

\* the values of the "code" key the gateway answers with
BodyCodes ==
    {"INVALID_REQUEST", "UNAUTHORIZED", "TASK_FAILED", "TASK_CANCELLED",
     "WAITING_USER", "INTERPRETING", "TASK_COMPLETED", Absent}

\* what response.json() gives: a JSON object with the envelope's top-level
\* keys ("success" is true, false, null or missing), or a JSON value that is
\* not an object
JsonObjects ==
    [kind : {"dict"}, success : {"true", "false", "null", Absent}, code : BodyCodes,
     message : {"boom", Absent}, errors : {"detail", Absent}]
JsonNonObject ==
    [kind |-> "list", success |-> Absent, code |-> Absent, message |-> Absent,
     errors |-> Absent]
NoBody ==
    [kind |-> "none", success |-> Absent, code |-> Absent, message |-> Absent,
     errors |-> Absent]

\* values of the Retry-After header
RetryAfterValues == {Absent, "", "7", "soon"}

\* HTTP status codes the gateway answers with
HttpStatuses == {200, 404, 429, 503}

\* the outcomes of requests.request: a requests.RequestException
\* (net = "fail") or a response
NetworkFailure ==
    [net |-> "fail", status |-> NoStatus, isjson |-> FALSE, body |-> NoBody,
     retry_after |-> Absent, text |-> ""]
JsonResponses ==
    [net : {"ok"}, status : HttpStatuses, isjson : {TRUE},
     body : JsonObjects \cup {JsonNonObject}, retry_after : {Absent}, text : {"<json>"}]
NonJsonResponses ==
    [net : {"ok"}, status : HttpStatuses, isjson : {FALSE}, body : {NoBody},
     retry_after : RetryAfterValues, text : {"<html>"}]
Outcomes == {NetworkFailure} \cup JsonResponses \cup NonJsonResponses

NoOutcome ==
    [net |-> "none", status |-> NoStatus, isjson |-> FALSE, body |-> NoBody,
     retry_after |-> Absent, text |-> ""]

\* SupplyGraphAPIError(message, http_status, api_code, errors, payload);
\* type "AttributeError" is the exception of data.get on a non-object
ApiError(msg, status, code, errs, payload) ==
    [type |-> "SupplyGraphAPIError", message |-> msg, http_status |-> status,
     api_code |-> code, errors |-> errs, payload |-> payload]
AttributeError ==
    [type |-> "AttributeError", message |-> "no attribute 'get'",
     http_status |-> NoStatus, api_code |-> Absent, errors |-> Absent,
     payload |-> [empty |-> TRUE]]
NoError ==
    [type |-> "None", message |-> "", http_status |-> NoStatus, api_code |-> Absent,
     errors |-> Absent, payload |-> [empty |-> TRUE]]

NoResult == [kind |-> "none"]
Returned(v) == [kind |-> "return", value |-> v]
Raised(e) == [kind |-> "raise", error |-> e]

\* d.get(key, default) on a JSON object
Get(v, default) == IF v = Absent THEN default ELSE v

\* AgentClient._should_retry
ShouldRetry(status) == status = NoStatus \/ status = 429 \/ status >= 500

\* bool(response): requests.Response.__bool__ is Response.ok, which is False
\* for 400 <= status_code < 600
ResponseTruthy(r) == r.net = "ok" /\ ~(400 <= r.status /\ r.status < 600)

\* float(retry_after): the number, or ValueError
ParseFloat(h) == IF h = "7" THEN [ok |-> TRUE, val |-> 7] ELSE [ok |-> FALSE, val |-> 0]

RECURSIVE Pow2(_)
Pow2(n) == IF n <= 0 THEN 1 ELSE 2 * Pow2(n - 1)

\* AgentClient._get_retry_delay(attempt, response)
GetRetryDelay(a, r) ==
    IF ResponseTruthy(r) /\ r.retry_after # Absent /\ r.retry_after # ""
          /\ ParseFloat(r.retry_after).ok
    THEN ParseFloat(r.retry_after).val
    ELSE backoff_factor * Pow2(a - 1)

\* line 104: attempt >= self.max_retries
NetAttemptsExhaustedLate(a) == a > max_retries
NetAttemptsExhausted(a) == a >= max_retries

\* line 129: attempt < self.max_retries
AttemptsRemain(a) == a < max_retries

RequestOp(a) == [op |-> "request", attempt |-> a, stream |-> stream, delay |-> 0]
SleepOp(a, d) == [op |-> "sleep", attempt |-> a, stream |-> stream, delay |-> d]

\* api_key=None, the default of AgentClient.__init__
NoKey == "<None>"

\* the headers local before line 82
NoHeaders == [ContentType |-> Absent, Authorization |-> Absent]

\* get_auth_header that attaches the header whatever the key
GetAuthHeaderAlways(key) ==
    [ContentType |-> "application/json", Authorization |-> "Bearer " \o key]

\* get_auth_header(api_key)
GetAuthHeader(key) ==
    [ContentType |-> "application/json",
     Authorization |-> IF key \notin {NoKey, ""} THEN "Bearer " \o key ELSE Absent]

ClientInit ==
    /\ api_key = NoKey
    /\ headers = NoHeaders
    /\ c_sent = <<>>
    /\ c_pc = "idle"
    /\ stream = FALSE
    /\ max_retries = 0
    /\ backoff_factor = 0
    /\ attempt = 0
    /\ last_error = NoError
    /\ c_resp = NoOutcome
    /\ c_hist = <<>>
    /\ c_trace = <<>>
    /\ c_result = NoResult

\* a client is configured, without an api_key, and _request_with_retry is
\* entered (lines 27-39, 74-84)
ClientCall ==
    /\ c_pc = "idle"
    /\ headers' = GetAuthHeader(api_key)
    /\ UNCHANGED <<api_key, c_sent>>
    /\ \E s \in BOOLEAN, m \in 0..MaxRetriesBound, b \in {1, 3} :
        /\ stream' = s
        /\ max_retries' = m
        /\ backoff_factor' = b
    /\ c_pc' = "attempting"
    /\ UNCHANGED <<attempt, last_error, c_resp, c_hist, c_trace, c_result>>
    /\ UNCHANGED <<wvars, svars, nvars, avars, xvars>>

\* line 111: response.status_code >= 400 in streaming mode
StreamHttpErrorOnly5xx(status) == status >= 500
StreamHttpError(status) == status >= 400

\* the HTTP status check passed over for the codes that are not errors
HttpErrorUnlessNonFatal(o) == o.status >= 400 /\ o.body.code \notin A2A_NON_FATAL_CODES

\* line 135: response.status_code >= 400, before the business check
HttpError(o) == o.status >= 400

\* a loop that makes one attempt at least
LoopRangeAtLeastOnce == 1..(IF max_retries < 1 THEN 1 ELSE max_retries)

\* line 86: range(1, self.max_retries + 1)
LoopRange == 1..max_retries

\* the end of one iteration: the call ends with result res
Finish(a, o, res) ==
    /\ c_pc' = (IF res.kind = "return" THEN "returned" ELSE "raised")
    /\ c_result' = res
    /\ c_trace' = Append(c_trace, RequestOp(a))

\* the end of one iteration: time.sleep(delay); continue
SleepAndContinue(a, d) ==
    /\ c_pc' = "attempting"
    /\ c_result' = c_result
    /\ c_trace' = c_trace \o <<RequestOp(a), SleepOp(a, d)>>

\* one iteration of the for-loop (lines 86-158): the request, and what the
\* code does with outcome o
ClientAttempt ==
    /\ c_pc = "attempting"
    /\ attempt + 1 \in LoopRange
    /\ \E o \in Outcomes :
        LET a == attempt + 1 IN
        /\ attempt' = a
        /\ c_resp' = o
        /\ c_hist' = Append(c_hist, o)
        /\ c_sent' = Append(c_sent, headers)
        /\ IF o.net = "fail"
           THEN \* lines 97-107
                LET error == ApiError("Network error", NoStatus, Absent, Absent,
                                      [empty |-> TRUE])
                IN  /\ last_error' = error
                    /\ IF NetAttemptsExhausted(a)
                       THEN Finish(a, o, Raised(error))
                       ELSE SleepAndContinue(a, GetRetryDelay(a, NoOutcome))
           ELSE IF stream
           THEN \* lines 110-117
                /\ UNCHANGED last_error
                /\ IF StreamHttpError(o.status)
                   THEN Finish(a, o, Raised(ApiError("HTTP error in streaming mode",
                                   o.status, Absent, Absent, [text |-> o.text])))
                   ELSE Finish(a, o, Returned(o))
           ELSE IF ~o.isjson
           THEN \* lines 120-132
                LET error == ApiError("Response is not valid JSON", o.status, Absent,
                                      Absent, [raw |-> o.text])
                IN  /\ last_error' = error
                    /\ IF ShouldRetry(o.status) /\ AttemptsRemain(a)
                       THEN SleepAndContinue(a, GetRetryDelay(a, o))
                       ELSE Finish(a, o, Raised(error))
           ELSE IF o.body.kind # "dict"
           THEN \* data.get on a JSON value that is not an object (137, 145)
                /\ UNCHANGED last_error
                /\ Finish(a, o, Raised(AttributeError))
           ELSE IF HttpError(o)
           THEN \* lines 135-142
                /\ UNCHANGED last_error
                /\ Finish(a, o, Raised(ApiError(Get(o.body.message, "HTTP error"),
                                   o.status, o.body.code, o.body.errors, o.body)))
           ELSE IF NotSuccess(o.body) /\ o.body.code \in A2A_FATAL_CODES
           THEN \* lines 145-155
                /\ UNCHANGED last_error
                /\ Finish(a, o, Raised(ApiError(Get(o.body.message, ""), o.status,
                                   o.body.code, o.body.errors, o.body)))
           ELSE \* line 158
                /\ UNCHANGED last_error
                /\ Finish(a, o, Returned(o.body))
    /\ UNCHANGED <<stream, max_retries, backoff_factor, api_key, headers>>
    /\ UNCHANGED <<wvars, svars, nvars, avars, xvars>>

\* lines 160-162: the for-loop ended without returning or raising
ClientLoopExhausted ==
    /\ c_pc = "attempting"
    /\ attempt + 1 \notin LoopRange
    /\ c_pc' = "raised"
    /\ c_result' = (IF last_error.type # "None"
                    THEN Raised(last_error)
                    ELSE Raised(ApiError("Unknown error after retries", NoStatus,
                                         Absent, Absent, [empty |-> TRUE])))
    /\ UNCHANGED <<stream, max_retries, backoff_factor, attempt, last_error,
                   c_resp, c_hist, c_trace, api_key, headers, c_sent>>
    /\ UNCHANGED <<wvars, svars, nvars, avars, xvars>>

ClientNext ==
    \/ ClientCall
    \/ ClientAttempt
    \/ ClientLoopExhausted

----------------------------------------------------------------------------
(* parse_sse *)

\* the text after "data:" on the lines the source may hold; the second and
\* third are the two halves of the first, split over two lines
DataTexts == {"{\"a\":1}", "{\"a\":", "1}", "[DONE]", ""}

\* A raw line of response.iter_lines: text `prefix``body`, surrounded by
\* white space when pad is TRUE. prefix "event" is "event:", "data" is
\* "data:", "none" is no prefix; prefix "None" is a raw_line that is None.
SseLine(pad, prefix, body) == [pad |-> pad, prefix |-> prefix, body |-> body]

SseLines ==
    {SseLine(FALSE, "none", ""), SseLine(TRUE, "none", "")}
    \cup {SseLine(FALSE, "event", t) : t \in {"update", "stream"}}
    \cup {SseLine(FALSE, "data", t) : t \in DataTexts}
    \cup {SseLine(TRUE, "data", "[DONE]"),
          SseLine(FALSE, "none", "hello"),
          SseLine(FALSE, "None", "")}

\* raw_line.strip()
StripLine(l) == [l EXCEPT !.pad = FALSE]

\* `not line` for a stripped line
IsBlank(l) == ~l.pad /\ l.prefix = "none" /\ l.body = ""

\* s.strip() for a string held as its lines (each already stripped): leading
\* and trailing empty lines go
RECURSIVE DropLeadingEmpty(_)
DropLeadingEmpty(s) ==
    IF s # <<>> /\ Head(s) = "" THEN DropLeadingEmpty(Tail(s)) ELSE s
RECURSIVE DropTrailingEmpty(_)
DropTrailingEmpty(s) ==
    IF s # <<>> /\ s[Len(s)] = "" THEN DropTrailingEmpty(SubSeq(s, 1, Len(s) - 1)) ELSE s

\* "\n".join(data_buffer).strip(), as the lines of the resulting string
JoinStrip(buf) == DropTrailingEmpty(DropLeadingEmpty(buf))

\* the lines of a string without the empty ones (JSON ignores white space
\* between tokens)
RECURSIVE NonEmptyLines(_)
NonEmptyLines(s) ==
    IF s = <<>> THEN <<>>
    ELSE IF Head(s) = "" THEN NonEmptyLines(Tail(s))
    ELSE <<Head(s)>> \o NonEmptyLines(Tail(s))

\* json.loads(payload_str): the parsed value, or the raw string when it
\* raises
JsonLoads(payload_str) ==
    IF NonEmptyLines(payload_str) \in {<<"{\"a\":1}">>, <<"{\"a\":", "1}">>}
    THEN [kind |-> "json", json |-> [a |-> 1]]
    ELSE [kind |-> "text", text |-> payload_str]

\* line 42: payload_str == "[DONE]"
IsDone(payload_str) == payload_str = <<"[DONE]">>

EndEvent == [event |-> "end", data |-> [kind |-> "text", text |-> <<"[DONE]">>]]

\* lines 61-66: a data: line gives its text, any other line is taken whole
TakeOnlyDataLines(buf, line) ==
    IF line.prefix = "data" THEN Append(buf, line.body) ELSE buf
TakeAsData(buf, line) == Append(buf, line.body)

\* What the source has held so far, kept beside the decoder's own variables:
\* s_block is the data: and unprefixed lines since the last blank line,
\* s_type the text of the last event: line, s_blocks the blocks that a blank
\* line has closed, each with the type in force when it closed.
SourceHistory(raw_line) ==
    IF raw_line.prefix = "None"
    THEN UNCHANGED <<s_block, s_type, s_blocks>>
    ELSE IF raw_line.prefix = "none" /\ raw_line.body = ""
    THEN /\ s_block' = <<>>
         /\ s_blocks' = IF s_block = <<>> THEN s_blocks
                        ELSE Append(s_blocks, [lines |-> s_block, type |-> s_type])
         /\ UNCHANGED s_type
    ELSE IF raw_line.prefix = "event"
    THEN /\ s_type' = raw_line.body
         /\ UNCHANGED <<s_block, s_blocks>>
    ELSE /\ s_block' = Append(s_block, [prefix |-> raw_line.prefix,
                                        body |-> raw_line.body])
         /\ UNCHANGED <<s_type, s_blocks>>

\* line 44: return after the end event
AfterSentinelContinues == "reading"
AfterSentinel == "done"

\* event_type after a yield that sets it back to the default
TypeAfterYieldReset(et) == "stream"

\* lines 37-51: event_type after a yield; the block is flushed and the
\* local is not assigned
TypeAfterYield(et) == et

SseInit ==
    /\ s_pc = "reading"
    /\ event_type = "stream"
    /\ data_buffer = <<>>
    /\ s_read = 0
    /\ s_out = <<>>
    /\ s_flushed = <<>>
    /\ s_block = <<>>
    /\ s_type = "stream"
    /\ s_blocks = <<>>

\* one iteration of `for raw_line in response.iter_lines(...)`, lines 30-66
SseReadLine ==
    /\ s_pc = "reading"
    /\ s_read < MaxSrcLines
    /\ \E raw_line \in SseLines :
        LET line == StripLine(raw_line) IN
        /\ s_read' = s_read + 1
        /\ SourceHistory(raw_line)
        /\ IF raw_line.prefix = "None"
           THEN UNCHANGED <<s_pc, event_type, data_buffer, s_out, s_flushed>>
           ELSE IF IsBlank(line)
           THEN IF data_buffer # <<>>
                THEN LET payload_str == JoinStrip(data_buffer) IN
                     /\ data_buffer' = <<>>
                     /\ s_flushed' = Append(s_flushed, data_buffer)
                     /\ event_type' = TypeAfterYield(event_type)
                     /\ IF IsDone(payload_str)
                        THEN /\ s_out' = Append(s_out, EndEvent)
                             /\ s_pc' = AfterSentinel
                        ELSE /\ s_out' = Append(s_out, [event |-> event_type,
                                                        data |-> JsonLoads(payload_str)])
                             /\ UNCHANGED s_pc
                ELSE UNCHANGED <<s_pc, event_type, data_buffer, s_out, s_flushed>>
           ELSE IF line.prefix = "event"
           THEN /\ event_type' = line.body
                /\ UNCHANGED <<s_pc, data_buffer, s_out, s_flushed>>
           ELSE \* a data: line, or any other line taken as data
                /\ data_buffer' = TakeAsData(data_buffer, line)
                /\ UNCHANGED <<s_pc, event_type, s_out, s_flushed>>
    /\ UNCHANGED <<wvars, cvars, nvars, avars, xvars>>

\* iter_lines is exhausted and the generator flushes what it has buffered
\* before it returns
SseSourceEndFlushes ==
    /\ s_pc = "reading"
    /\ s_pc' = "done"
    /\ IF data_buffer # <<>>
       THEN /\ data_buffer' = <<>>
            /\ s_flushed' = Append(s_flushed, data_buffer)
            /\ s_out' = Append(s_out, [event |-> event_type,
                                       data |-> JsonLoads(JoinStrip(data_buffer))])
       ELSE UNCHANGED <<data_buffer, s_flushed, s_out>>
    /\ UNCHANGED <<event_type, s_read>>
    /\ UNCHANGED <<s_block, s_type, s_blocks>>
    /\ UNCHANGED <<wvars, cvars, nvars, avars, xvars>>

\* iter_lines is exhausted: the generator returns
SseSourceEnd ==
    /\ s_pc = "reading"
    /\ s_pc' = "done"
    /\ UNCHANGED <<event_type, data_buffer, s_read, s_out, s_flushed>>
    /\ UNCHANGED <<s_block, s_type, s_blocks>>
    /\ UNCHANGED <<wvars, cvars, nvars, avars, xvars>>

SseNext ==
    \/ SseReadLine
    \/ SseSourceEnd

----------------------------------------------------------------------------
(* OpenAI A2A normalizers: to_openai_run, to_openai_status, to_openai_result *)

\* JSON values as the Python code sees them. Missing stands for a key that a
\* dict does not hold; a dict is a record whose field t is "dict" and whose
\* other fields are its keys.
Missing == [t |-> "missing"]
JNull == [t |-> "null"]
JS(s) == [t |-> "str", s |-> s]
JInt(n) == [t |-> "int", n |-> n]
JList(items) == [t |-> "list", items |-> items]
JBool(b) == [t |-> "bool", b |-> b]
EmptyDict == [t |-> "dict"]

\* isinstance(v, str), isinstance(v, dict)
IsStr(v) == v.t = "str"
IsDict(v) == v.t = "dict"

\* `k in d` for a dict d
Has(d, k) == k \in DOMAIN d /\ d[k] # Missing

\* the keys of a dict
Keys(d) == {k \in DOMAIN d \ {"t"} : d[k] # Missing}

\* d.get(k, default)
DictGet(d, k, default) == IF Has(d, k) THEN d[k] ELSE default

\* bool(v)
Truthy(v) ==
    \/ v.t = "str" /\ v.s # ""
    \/ v.t = "int" /\ v.n # 0
    \/ v.t = "bool" /\ v.b
    \/ v.t = "list" /\ v.items # <<>>
    \/ v.t = "dict" /\ Keys(v) # {}

\* `a or b`
Or(a, b) == IF Truthy(a) THEN a ELSE b

\* str(v) for the values that are neither None, str nor dict
PyStr(v) ==
    IF v.t = "int"
    THEN JS(IF v.n = 5 THEN "5" ELSE IF v.n = 0 THEN "0" ELSE "<int>")
    ELSE JS("<repr>")

\* f"sg_task_{now_timestamp()}": the prefix and the clock reading
SgTaskId(now) == [t |-> "str", s |-> "sg_task_", n |-> now]

(* status_map.py *)

SG_STATUS_IN_PROGRESS == {"INTERPRETING", "TASK_ACCEPTED", "TASK_RUNNING", "THINKING"}
SG_STATUS_REQUIRES_ACTION == {"WAITING_USER"}
SG_STATUS_COMPLETED == {"TASK_COMPLETED"}
SG_STATUS_FAILED ==
    {"TASK_FAILED", "INVALID_REQUEST", "UNAUTHORIZED", "INSUFFICIENT_CREDITS",
     "INVALID_INTENT", "RATE_LIMITED", "TARGET_UNAVAILABLE", "TIMEOUT"}
SG_STATUS_CANCELLED == {"TASK_CANCELLED"}

\* the dict SG_TO_OPENAI_STATUS after the five loops of lines 106-119: a later
\* loop overwrites an earlier one
SG_TO_OPENAI_STATUS ==
    [code \in SG_STATUS_IN_PROGRESS \cup SG_STATUS_REQUIRES_ACTION
              \cup SG_STATUS_COMPLETED \cup SG_STATUS_FAILED
              \cup SG_STATUS_CANCELLED |->
        IF code \in SG_STATUS_CANCELLED THEN "cancelled"
        ELSE IF code \in SG_STATUS_FAILED THEN "failed"
        ELSE IF code \in SG_STATUS_COMPLETED THEN "completed"
        ELSE IF code \in SG_STATUS_REQUIRES_ACTION THEN "requires_action"
        ELSE "in_progress"]

\* the default of map_sg_to_openai for a code the table does not hold
UnknownCodeFails == "failed"
UnknownCodeStatus == "in_progress"

\* map_sg_to_openai(code)
MapSgToOpenai(code) ==
    IF ~Truthy(code) THEN "in_progress"
    ELSE IF IsStr(code) /\ code.s \in DOMAIN SG_TO_OPENAI_STATUS
    THEN SG_TO_OPENAI_STATUS[code.s]
    ELSE UnknownCodeStatus

(* utils/content_extractor.py *)

\* extract_output_from_sg_content with the structured-result branch left out
ExtractOutputResultAsPlainDict(content) ==
    IF content = JNull THEN JNull
    ELSE IF IsStr(content)
    THEN [t |-> "dict", type |-> JS("text"), content |-> content]
    ELSE IF IsDict(content)
    THEN [t |-> "dict", type |-> JS("json"), content |-> content]
    ELSE [t |-> "dict", type |-> JS("text"), content |-> PyStr(content)]

\* extract_output_from_sg_content(content)
ExtractOutputFromSgContent(content) ==
    IF content = JNull THEN JNull
    ELSE IF IsStr(content)
    THEN [t |-> "dict", type |-> JS("text"), content |-> content]
    ELSE IF IsDict(content)
    THEN IF DictGet(content, "type", JNull) = JS("result")
         THEN [t |-> "dict", type |-> JS("json"),
               content |-> DictGet(content, "data", EmptyDict)]
         ELSE [t |-> "dict", type |-> JS("json"), content |-> content]
    ELSE [t |-> "dict", type |-> JS("text"), content |-> PyStr(content)]

(* utils/extensions_builder.py *)

\* the keys build_sg_extensions takes from data, and the one from metadata
ExtDataKeys == {"stage", "code", "progress", "timestamp", "agent", "is_final"}

\* build_sg_extensions(sg_data, sg_metadata)["extensions"]
BuildSgExtensions(sg_data, sg_meta) ==
    LET fromData == {k \in ExtDataKeys : DictGet(sg_data, k, JNull) # JNull}
        fromMeta == {k \in {"credits_used"} : DictGet(sg_meta, k, JNull) # JNull}
        ext == [k \in {"t"} \cup fromData \cup fromMeta |->
                   IF k = "t" THEN "dict"
                   ELSE IF k \in fromData THEN sg_data[k] ELSE sg_meta[k]]
    IN [t |-> "dict", supplygraph |-> ext]

\* a dict of the keys `keys` of meta that meta holds, with the envelope's
\* message when it holds one; None when that dict is empty (`md or None`)
ExtractMetadata(sg, keys) ==
    LET sg_meta == Or(DictGet(sg, "metadata", EmptyDict), EmptyDict)
        fromSg == {k \in {"message"} : Has(sg, k)}
        fromMeta == {k \in keys : Has(sg_meta, k)}
        md == [k \in {"t"} \cup fromSg \cup fromMeta |->
                  IF k = "t" THEN "dict"
                  ELSE IF k \in fromSg THEN sg[k] ELSE sg_meta[k]]
    IN IF fromSg \cup fromMeta = {} THEN JNull ELSE md

\* the id resolved with .get defaults in place of `or`: a key that is there
\* with a null or empty value is taken
TaskIdByDefaults(sg, sg_data, now) ==
    DictGet(sg_data, "task_id", DictGet(sg, "task_id", SgTaskId(now)))

\* the id of the three objects: data.task_id, else the envelope's task_id,
\* else the synthesized one
TaskId(sg, sg_data, now) ==
    Or(Or(DictGet(sg_data, "task_id", JNull), DictGet(sg, "task_id", JNull)),
       SgTaskId(now))

\* `status in ("completed", "requires_action")`
OutputStatusesWithInProgress == {"completed", "requires_action", "in_progress"}
OutputStatuses == {"completed", "requires_action"}

(* run_adapter.py *)

\* OpenAIA2ARunAdapter._extract_input
RunExtractInput(sg) ==
    LET data == Or(DictGet(sg, "data", EmptyDict), EmptyDict)
        extra == DictGet(data, "extra", JNull)
        text == {k \in {"text"} : Has(data, "input")}
        more == IF IsDict(extra) THEN Keys(extra) \ text ELSE {}
        inp == [k \in {"t"} \cup text \cup more |->
                   IF k = "t" THEN "dict"
                   ELSE IF k \in text THEN data["input"] ELSE extra[k]]
    IN IF text \cup more = {} THEN JNull ELSE inp

\* OpenAIA2ARunAdapter._build_output_block
RunBuildOutputBlock(openai_status, sg_data) ==
    LET content == DictGet(sg_data, "content", JNull)
        output == ExtractOutputFromSgContent(content)
    IN IF openai_status \notin OutputStatuses THEN JNull
       ELSE IF ~Truthy(output) THEN JNull
       ELSE output

\* OpenAIA2ARunAdapter._build_required_action
RunBuildRequiredAction(sg) ==
    LET data == Or(DictGet(sg, "data", EmptyDict), EmptyDict)
        content == DictGet(data, "content", JNull)
        message == Or(DictGet(sg, "message", JNull), JS(""))
        text_message == IF IsStr(content) THEN content
                        ELSE IF IsDict(content) /\ Has(content, "prompt")
                        THEN DictGet(content, "prompt", JNull)
                        ELSE JNull
    IN [t |-> "dict", type |-> JS("awaiting_user"),
        message |-> IF Truthy(text_message) THEN text_message
                    ELSE Or(message,
                            JS("Additional user input is required to continue this task."))]

\* OpenAIA2ARunAdapter._build_last_error
RunBuildLastError(sg) ==
    [t |-> "dict", code |-> DictGet(sg, "code", JNull),
     message |-> DictGet(sg, "message", JS("An error occurred."))]

\* OpenAIA2ARunAdapter.to_openai_run; t_id and t_created are the clock
\* readings of lines 98 and 142
ToOpenaiRun(agent, sg_result, t_id, t_created) ==
    LET sg_code == Or(DictGet(sg_result, "code", JNull), JS(""))
        sg_data == Or(DictGet(sg_result, "data", EmptyDict), EmptyDict)
        sg_meta == Or(DictGet(sg_result, "metadata", EmptyDict), EmptyDict)
        openai_status == MapSgToOpenai(sg_code)
    IN [t |-> "dict",
        id |-> TaskId(sg_result, sg_data, t_id),
        object |-> "agent.run",
        agent_id |-> agent,
        status |-> openai_status,
        created_at |-> t_created,
        input |-> RunExtractInput(sg_result),
        output |-> RunBuildOutputBlock(openai_status, sg_data),
        required_action |-> IF openai_status = "requires_action"
                            THEN RunBuildRequiredAction(sg_result) ELSE JNull,
        last_error |-> IF openai_status = "failed"
                       THEN RunBuildLastError(sg_result) ELSE JNull,
        metadata |-> ExtractMetadata(sg_result, {"agent", "timestamp", "version"}),
        extensions |-> BuildSgExtensions(sg_data, sg_meta)]

(* status_adapter.py *)

\* OpenAIA2AStatusAdapter._convert_steps
RECURSIVE ConvertStepItems(_, _)
ConvertStepItems(items, now) ==
    IF items = <<>> THEN <<>>
    ELSE <<[t |-> "dict",
            type |-> DictGet(Head(items), "type", JS("reasoning")),
            content |-> DictGet(Head(items), "content", JS("")),
            timestamp |-> now]>> \o ConvertStepItems(Tail(items), now)
ConvertSteps(sg_data, now) ==
    LET sg_steps == DictGet(sg_data, "intermediate_steps", JList(<<>>))
    IN IF ~Truthy(sg_steps) THEN JList(<<>>)
       ELSE JList(ConvertStepItems(sg_steps.items, now))

\* OpenAIA2AStatusAdapter._build_output_block
StatusBuildOutputBlock(openai_status, sg_data) ==
    IF openai_status \notin OutputStatuses THEN JNull
    ELSE ExtractOutputFromSgContent(DictGet(sg_data, "content", JNull))

\* OpenAIA2AStatusAdapter._build_required_action
StatusBuildRequiredAction(sg) ==
    LET data == Or(DictGet(sg, "data", EmptyDict), EmptyDict)
        content == DictGet(data, "content", JNull)
        message == DictGet(sg, "message", JS(""))
    IN [t |-> "dict", type |-> JS("awaiting_user"),
        message |-> IF IsStr(content) THEN content
                    ELSE IF IsDict(content) /\ Has(content, "prompt")
                    THEN content["prompt"]
                    ELSE Or(message, JS("Additional user input is required."))]

\* OpenAIA2AStatusAdapter._build_last_error
StatusBuildLastError(sg) ==
    [t |-> "dict", code |-> DictGet(sg, "code", JNull),
     message |-> DictGet(sg, "message", JS("Task failed."))]

\* OpenAIA2AStatusAdapter.to_openai_status; t_id, t_created and t_steps are
\* the clock readings of lines 98, 101 and 156
ToOpenaiStatus(agent, sg_status, t_id, t_created, t_steps) ==
    LET sg_code == DictGet(sg_status, "code", JS(""))
        sg_data == Or(DictGet(sg_status, "data", EmptyDict), EmptyDict)
        sg_meta == Or(DictGet(sg_status, "metadata", EmptyDict), EmptyDict)
        openai_status == MapSgToOpenai(sg_code)
    IN [t |-> "dict",
        id |-> TaskId(sg_status, sg_data, t_id),
        object |-> "agent.run.status",
        agent_id |-> agent,
        status |-> openai_status,
        created_at |-> t_created,
        steps |-> ConvertSteps(sg_data, t_steps),
        output |-> StatusBuildOutputBlock(openai_status, sg_data),
        required_action |-> IF openai_status = "requires_action"
                            THEN StatusBuildRequiredAction(sg_status) ELSE JNull,
        last_error |-> IF openai_status = "failed"
                       THEN StatusBuildLastError(sg_status) ELSE JNull,
        metadata |-> ExtractMetadata(sg_status, {"agent", "timestamp", "credits_used"}),
        extensions |-> BuildSgExtensions(sg_data, sg_meta)]

(* results_adapter.py *)

\* OpenAIA2AResultsAdapter._build_last_error
ResultsBuildLastError(sg) ==
    [t |-> "dict", code |-> DictGet(sg, "code", JNull),
     message |-> DictGet(sg, "message", JS("Task failed.")),
     details |-> DictGet(sg, "errors", JNull)]

\* OpenAIA2AResultsAdapter._build_required_action
ResultsBuildRequiredAction(sg) ==
    LET data == Or(DictGet(sg, "data", EmptyDict), EmptyDict)
        content == DictGet(data, "content", JNull)
        message == DictGet(sg, "message", JS(""))
    IN [t |-> "dict", type |-> JS("awaiting_user"),
        message |-> IF IsStr(content) THEN content
                    ELSE IF IsDict(content) /\ Has(content, "prompt")
                    THEN content["prompt"]
                    ELSE Or(message, JS("Additional user input is required."))]

\* OpenAIA2AResultsAdapter.to_openai_result; t_id and t_created are the
\* clock readings of lines 86 and 89
ToOpenaiResult(agent, sg_result, t_id, t_created) ==
    LET sg_code == DictGet(sg_result, "code", JS(""))
        sg_data == Or(DictGet(sg_result, "data", EmptyDict), EmptyDict)
        sg_meta == Or(DictGet(sg_result, "metadata", EmptyDict), EmptyDict)
        openai_status == MapSgToOpenai(sg_code)
    IN [t |-> "dict",
        id |-> TaskId(sg_result, sg_data, t_id),
        object |-> "agent.run.result",
        agent_id |-> agent,
        status |-> openai_status,
        created_at |-> t_created,
        output |-> IF openai_status = "completed"
                   THEN ExtractOutputFromSgContent(DictGet(sg_data, "content", JNull))
                   ELSE JNull,
        last_error |-> IF openai_status = "failed"
                       THEN ResultsBuildLastError(sg_result) ELSE JNull,
        required_action |-> IF openai_status = "requires_action"
                            THEN ResultsBuildRequiredAction(sg_result) ELSE JNull,
        metadata |-> ExtractMetadata(sg_result, {"timestamp", "credits_used", "agent"}),
        extensions |-> BuildSgExtensions(sg_data, sg_meta)]

(* the calls that raise *)

\* what a call leaves behind when it raises instead of returning
NormRaised(type) == [t |-> "raise", type |-> type]

\* `sg.get("data", {}) or {}` and `sg.get("metadata", {}) or {}` keep a truthy
\* value of any type; the `.get` calls that follow raise AttributeError on a
\* value that is not a dict
DataOrMetadataNotDict(sg) ==
    \/ ~IsDict(Or(DictGet(sg, "data", EmptyDict), EmptyDict))
    \/ ~IsDict(Or(DictGet(sg, "metadata", EmptyDict), EmptyDict))

\* the loop of _convert_steps: iterating a number raises TypeError;
\* `step.get` raises AttributeError on a step that is not a dict (an item of
\* the list, a character of a string, a key of a dict)
ConvertStepsError(sg_data) ==
    LET sg_steps == DictGet(sg_data, "intermediate_steps", JList(<<>>))
    IN IF ~Truthy(sg_steps) THEN "none"
       ELSE IF sg_steps.t = "int" THEN "TypeError"
       ELSE IF sg_steps.t = "list"
               /\ \A i \in DOMAIN sg_steps.items : IsDict(sg_steps.items[i])
       THEN "none"
       ELSE "AttributeError"

\* build_openai_run(agent_id, sg_result)
BuildOpenaiRun(agent, sg, t_id, t_created) ==
    IF DataOrMetadataNotDict(sg) THEN NormRaised("AttributeError")
    ELSE ToOpenaiRun(agent, sg, t_id, t_created)

\* build_openai_status(agent_id, sg_status)
BuildOpenaiStatus(agent, sg, t_id, t_created, t_steps) ==
    IF DataOrMetadataNotDict(sg) THEN NormRaised("AttributeError")
    ELSE IF ConvertStepsError(Or(DictGet(sg, "data", EmptyDict), EmptyDict)) # "none"
    THEN NormRaised(ConvertStepsError(Or(DictGet(sg, "data", EmptyDict), EmptyDict)))
    ELSE ToOpenaiStatus(agent, sg, t_id, t_created, t_steps)

\* build_openai_result(agent_id, sg_result)
BuildOpenaiResult(agent, sg, t_id, t_created) ==
    IF DataOrMetadataNotDict(sg) THEN NormRaised("AttributeError")
    ELSE ToOpenaiResult(agent, sg, t_id, t_created)

(* the envelopes and the calls *)

\* the codes an envelope may carry: the gateway's vocabulary, an unknown
\* code, the empty string, null, or no code at all
EnvelopeCodes ==
    {JS(c) : c \in DOMAIN SG_TO_OPENAI_STATUS} \cup {JS("SOMETHING_NEW"), JS(""), JNull, Missing}

\* one code of each status group, and the codes outside the vocabulary
CoreCodes ==
    {JS("TASK_RUNNING"), JS("WAITING_USER"), JS("TASK_COMPLETED"), JS("TASK_FAILED"),
     JS("TASK_CANCELLED"), JS("SOMETHING_NEW"), JS(""), JNull, Missing}

EnvelopeMessages == {JS("More information required."), JS(""), JNull, Missing}

\* data.content: absent, null, text, a structured result with and without
\* data, a prompt map (with a text, empty or null prompt), any other map,
\* a number
Contents ==
    {Missing, JNull, JS("Please confirm the HTS code."), JS(""),
     [t |-> "dict", type |-> JS("result"), data |-> [t |-> "dict", total |-> JInt(5)]],
     [t |-> "dict", type |-> JS("result")],
     [t |-> "dict", prompt |-> JS("Which country?")],
     [t |-> "dict", prompt |-> JS("")],
     [t |-> "dict", prompt |-> JNull],
     [t |-> "dict", note |-> JS("n")],
     JInt(5)}

\* a data block that holds only content and, possibly, a task id
SgData(task_id, content) == [t |-> "dict", task_id |-> task_id, content |-> content]

\* a data block with every key the normalizers read
FullData ==
    [t |-> "dict", task_id |-> JS("t_123"), content |-> JS("Please confirm the HTS code."),
     input |-> JS("import 100kg"), extra |-> [t |-> "dict", hs |-> JS("8501")],
     intermediate_steps |-> JList(<<[t |-> "dict", type |-> JS("thinking"),
                                     content |-> JS("parsing")],
                                    [t |-> "dict"]>>),
     stage |-> JS("executing"), code |-> JS("TASK_RUNNING"), progress |-> JInt(5),
     is_final |-> JNull]

Datas ==
    {Missing, JNull, FullData}
    \cup {SgData(task_id, content) : task_id \in {Missing, JS("t_123")}, content \in Contents}

\* the rest of an envelope: nothing, or errors, a top-level task id and a
\* metadata block
BareRest == [errors |-> Missing, task_id |-> Missing, metadata |-> Missing]
FullRest ==
    [errors |-> JS("hs_code required"), task_id |-> JS("t_top"),
     metadata |-> [t |-> "dict", agent |-> JS("tariff_calc"),
                   timestamp |-> JS("2025-01-01T00:00:00Z"),
                   version |-> JS("1.0"), credits_used |-> JInt(5)]]

Envelope(code, message, data, rest) ==
    [t |-> "dict", code |-> code, message |-> message, data |-> data,
     errors |-> rest.errors, task_id |-> rest.task_id, metadata |-> rest.metadata]

\* every combination of the fields for the core codes; for the other codes
\* of the vocabulary, the envelopes with and without a message and content
Envelopes ==
    {Envelope(code, message, data, rest) :
        code \in CoreCodes, message \in EnvelopeMessages,
        data \in Datas, rest \in {BareRest, FullRest}}
    \cup {Envelope(code, message, data, BareRest) :
        code \in EnvelopeCodes,
        message \in {JS("More information required."), Missing},
        data \in {Missing, SgData(Missing, JS("Please confirm the HTS code."))}}

\* envelopes whose data, metadata or intermediate_steps have an unexpected
\* type: data a string or a list, metadata a string, and intermediate_steps
\* holding a step that is not a map, or being a string or a number
UnexpectedDatas ==
    {JS("oops"), JList(<<JInt(5)>>),
     [t |-> "dict", content |-> JS("Please confirm the HTS code."),
      intermediate_steps |-> JList(<<[t |-> "dict", content |-> JS("parsing")], JS("x")>>)],
     [t |-> "dict", intermediate_steps |-> JS("x")],
     [t |-> "dict", intermediate_steps |-> JInt(5)]}

UnexpectedEnvelopes ==
    {Envelope(code, JS("More information required."), data, BareRest) :
        code \in {JS("TASK_RUNNING"), JS("WAITING_USER")}, data \in UnexpectedDatas}
    \cup {Envelope(JS("TASK_RUNNING"), Missing, data,
                   [errors |-> Missing, task_id |-> Missing, metadata |-> JS("m")]) :
        data \in {Missing, SgData(Missing, JS("Please confirm the HTS code."))}}

\* envelopes whose nested or top-level task id is there but null or empty
TaskIdEnvelopes ==
    {Envelope(JS("TASK_RUNNING"), Missing, data,
              [errors |-> Missing, task_id |-> top, metadata |-> Missing]) :
        data \in {Missing} \cup {SgData(nested, Missing) : nested \in {JS(""), JNull, JS("t_123")}},
        top \in {Missing, JNull, JS(""), JS("t_top")}}

\* envelopes whose data and metadata hold allow-listed fields, some of them
\* zero, empty, false or null, and agent, timestamp and credits_used in the
\* one block or the other
ExtensionDatas ==
    {[t |-> "dict", task_id |-> JS("t_123"), agent |-> JS("tariff_calc"),
      stage |-> JS(""), code |-> JS("TASK_RUNNING"), progress |-> JInt(0),
      timestamp |-> JS("2025-01-01T00:00:00Z"), is_final |-> JBool(FALSE)],
     [t |-> "dict", task_id |-> JS("t_123"), stage |-> JNull,
      credits_used |-> JInt(5)]}
ExtensionMetadatas ==
    {Missing,
     [t |-> "dict", agent |-> JS("tariff_calc"),
      timestamp |-> JS("2025-01-01T00:00:00Z"), credits_used |-> JInt(0)],
     [t |-> "dict", credits_used |-> JNull, stage |-> JS("executing")]}
ExtensionEnvelopes ==
    {Envelope(JS("TASK_RUNNING"), Missing, data,
              [errors |-> Missing, task_id |-> Missing, metadata |-> metadata]) :
        data \in ExtensionDatas, metadata \in ExtensionMetadatas}

AgentIds == {"tariff_calc"}

\* the readings of now_timestamp() (epoch seconds)
Clock == {1731970000, 1731970001}

NoEnvelope == [t |-> "none"]
NoObject == [t |-> "none"]

NormInit ==
    /\ n_env = NoEnvelope
    /\ n_agent = ""
    /\ n_run = NoObject
    /\ n_status = NoObject
    /\ n_result = NoObject

\* the caller has an envelope and an agent id to normalize
NormPick ==
    /\ n_env = NoEnvelope
    /\ n_env' \in Envelopes \cup UnexpectedEnvelopes \cup TaskIdEnvelopes
                   \cup ExtensionEnvelopes
    /\ n_agent' \in AgentIds
    /\ UNCHANGED <<n_run, n_status, n_result>>
    /\ UNCHANGED <<wvars, cvars, svars, avars, xvars>>

\* build_openai_run(agent_id, sg_result)
NormRun ==
    /\ n_env # NoEnvelope
    /\ n_run = NoObject
    /\ \E t_id \in Clock : \E t_created \in Clock :
        /\ t_id <= t_created
        /\ n_run' = BuildOpenaiRun(n_agent, n_env, t_id, t_created)
    /\ UNCHANGED <<n_env, n_agent, n_status, n_result>>
    /\ UNCHANGED <<wvars, cvars, svars, avars, xvars>>

\* build_openai_status(agent_id, sg_status)
NormStatus ==
    /\ n_env # NoEnvelope
    /\ n_status = NoObject
    /\ \E t_id \in Clock : \E t_created \in Clock : \E t_steps \in Clock :
        /\ t_id <= t_created
        /\ t_created <= t_steps
        /\ n_status' = BuildOpenaiStatus(n_agent, n_env, t_id, t_created, t_steps)
    /\ UNCHANGED <<n_env, n_agent, n_run, n_result>>
    /\ UNCHANGED <<wvars, cvars, svars, avars, xvars>>

\* build_openai_result(agent_id, sg_result)
NormResult ==
    /\ n_env # NoEnvelope
    /\ n_result = NoObject
    /\ \E t_id \in Clock : \E t_created \in Clock :
        /\ t_id <= t_created
        /\ n_result' = BuildOpenaiResult(n_agent, n_env, t_id, t_created)
    /\ UNCHANGED <<n_env, n_agent, n_run, n_status>>
    /\ UNCHANGED <<wvars, cvars, svars, avars, xvars>>

NormNext ==
    \/ NormPick
    \/ NormRun
    \/ NormStatus
    \/ NormResult

----------------------------------------------------------------------------
(* AgentClient.run, status, results, manifest *)

\* largest max_retries of the clients whose public operations are called
ApiMaxRetries == 2

\* the values of max_retries that leave no attempt
NonPositiveRetries == {-1, 0}

\* the api_key of those clients: None, empty, a token
ApiKeys == {NoKey, "", "sk_live"}

\* s.strip() == "" for the strings the arguments may be
WhiteSpaceOnly == {"", " ", "  "}

\* the arguments a caller may pass: a usable string, the empty string, white
\* space only, None, a number
AgentIdArgs == {JS("tariff_calc"), JS(""), JS(" "), JNull, JInt(5)}
TextArgs == {JS("import 100kg"), JS(""), JS("  "), JNull, JInt(5)}
TaskIdArgs == {JS("t_123"), JS(""), JS("  "), JNull, JInt(5)}

Operations == {"run", "status", "results", "manifest"}

\* ValueError(message)
ValueError(msg) ==
    [type |-> "ValueError", message |-> msg, http_status |-> NoStatus,
     api_code |-> Absent, errors |-> Absent, payload |-> [empty |-> TRUE]]

\* _validate_agent_id passes
ValidAgentId(agent_id) == Truthy(agent_id) /\ IsStr(agent_id)

\* _validate_text_for_run passes
ValidTextForRun(text) == IsStr(text) /\ text.s \notin WhiteSpaceOnly

\* _validate_task_id passes
ValidTaskIdUnstripped(task_id) == IsStr(task_id) /\ task_id.s # ""
ValidTaskId(task_id) == IsStr(task_id) /\ task_id.s \notin WhiteSpaceOnly

\* the validations at the head of run, status, results and manifest: the
\* error the first failing one raises, NoError when all pass
Validate(op, agent_id, text, task_id) ==
    IF ~ValidAgentId(agent_id)
    THEN ValueError("agent_id must be a non-empty string")
    ELSE IF op = "run" /\ ~ValidTextForRun(text)
    THEN ValueError("text must be a non-empty string for mode='run'")
    ELSE IF op \in {"status", "results"} /\ ~ValidTaskId(task_id)
    THEN ValueError("task_id must be a non-empty string")
    ELSE NoError

NoCall == [op |-> "none", agent_id |-> JNull, text |-> JNull, task_id |-> JNull]

ApiInit == a_call = NoCall

\* a public operation of a configured client is called: its validations,
\* then _request_with_retry is entered (run with stream=True hands the
\* returned response to parse_sse, which reads nothing until it is iterated).
\* An argument the operation does not take is None.
ApiCall ==
    /\ c_pc = "idle"
    /\ \E op \in Operations, agent_id \in AgentIdArgs, text \in TextArgs,
          task_id \in TaskIdArgs, s \in BOOLEAN,
          m \in NonPositiveRetries \cup 1..ApiMaxRetries,
          key \in ApiKeys :
        /\ op # "run" => text = JNull /\ ~s
        /\ op = "manifest" => task_id = JNull
        /\ a_call' = [op |-> op, agent_id |-> agent_id, text |-> text,
                      task_id |-> task_id]
        /\ stream' = s
        /\ max_retries' = m
        /\ backoff_factor' = 1
        /\ api_key' = key
        /\ LET error == Validate(op, agent_id, text, task_id) IN
           IF error # NoError
           THEN /\ c_pc' = "raised"
                /\ c_result' = Raised(error)
                /\ UNCHANGED headers
           ELSE /\ c_pc' = "attempting"
                /\ headers' = GetAuthHeader(key)
                /\ UNCHANGED c_result
    /\ UNCHANGED <<attempt, last_error, c_resp, c_hist, c_trace, c_sent>>
    /\ UNCHANGED <<wvars, svars, nvars, xvars>>

ApiNext ==
    \/ ApiCall
    \/ ClientAttempt
    \/ ClientLoopExhausted

----------------------------------------------------------------------------
(* one normalizer called twice on the same envelope *)

Normalizers == {"run", "status", "result"}

\* the envelopes given twice: those without a message that are running or
\* completed
RepeatedEnvelopes ==
    {e \in Envelopes \cup UnexpectedEnvelopes :
        e.message = Missing /\ e.code \in {JS("TASK_RUNNING"), JS("TASK_COMPLETED")}}

\* the first reading of the clock
Epoch == 1731970000

RepeatInit ==
    /\ d_fn = "none"
    /\ d_env = NoEnvelope
    /\ d_now = Epoch
    /\ d_first = NoObject
    /\ d_second = NoObject

\* the caller has an envelope and a normalizer to call
RepeatPick ==
    /\ d_env = NoEnvelope
    /\ d_env' \in RepeatedEnvelopes
    /\ d_fn' \in Normalizers
    /\ UNCHANGED <<d_now, d_first, d_second>>
    /\ UNCHANGED <<oldvars, pvars, ovars>>

\* time passes between two calls
RepeatTick ==
    /\ d_env # NoEnvelope
    /\ d_now + 1 \in Clock
    /\ d_now' = d_now + 1
    /\ UNCHANGED <<d_fn, d_env, d_first, d_second>>
    /\ UNCHANGED <<oldvars, pvars, ovars>>

\* build_openai_run, build_openai_status or build_openai_result, reading the
\* clock at t_id, t_created and (status only) t_steps
NormalizerCall(fn, agent, sg, t_id, t_created, t_steps) ==
    IF fn = "run" THEN BuildOpenaiRun(agent, sg, t_id, t_created)
    ELSE IF fn = "status" THEN BuildOpenaiStatus(agent, sg, t_id, t_created, t_steps)
    ELSE BuildOpenaiResult(agent, sg, t_id, t_created)

\* the readings a call that starts at `now` may take: the clock does not go
\* back, and only the status normalizer reads it a third time
Readings(fn, now) ==
    {r \in Clock \X Clock \X Clock :
        /\ now <= r[1] /\ r[1] <= r[2] /\ r[2] <= r[3]
        /\ fn # "status" => r[3] = r[2]}

\* the first call; sg is read, never assigned
RepeatFirstCall ==
    /\ d_env # NoEnvelope
    /\ d_first = NoObject
    /\ \E agent \in AgentIds : \E r \in Readings(d_fn, d_now) :
        /\ d_first' = NormalizerCall(d_fn, agent, d_env, r[1], r[2], r[3])
        /\ d_now' = r[3]
    /\ UNCHANGED <<d_fn, d_env, d_second>>
    /\ UNCHANGED <<oldvars, pvars, ovars>>

\* the second call, with the same agent id and the same envelope
RepeatSecondCall ==
    /\ d_first # NoObject
    /\ d_second = NoObject
    /\ \E agent \in AgentIds : \E r \in Readings(d_fn, d_now) :
        /\ d_second' = NormalizerCall(d_fn, agent, d_env, r[1], r[2], r[3])
        /\ d_now' = r[3]
    /\ UNCHANGED <<d_fn, d_env, d_first>>
    /\ UNCHANGED <<oldvars, pvars, ovars>>

RepeatNext ==
    \/ RepeatPick
    \/ RepeatTick
    \/ RepeatFirstCall
    \/ RepeatSecondCall

----------------------------------------------------------------------------
(* two invocations interleaved on one instance *)

\* most events taken by each of the two generators
PairMaxEvents == 2
\* largest max_retries of the shared client
PairMaxRetries == 2

Invocations == {1, 2}

\* step_index and delta_index are locals of generator() (lines 91-92),
\* attempt and last_error locals of _request_with_retry: every invocation
\* has a frame of locals of its own. LocalsOnInstance keeps them in one
\* place shared by the invocations.
LocalsOnInstance(i) == 1
LocalsOf(i) == i

\* the items of the two sources
PairEvents ==
    {[event |-> "stream", data |-> DirectPayload(<<[k |-> "s", v |-> "A"]>>)],
     [event |-> "stream", data |-> NestedPayload(<<[k |-> "s", v |-> "A"], [k |-> "n", v |-> "7"]>>)],
     [event |-> "stream", data |-> PlainPayload],
     [event |-> "end", data |-> TextPayload]}

\* the outcomes of requests.request for the two calls
PairOutcomes ==
    {NetworkFailure,
     [net |-> "ok", status |-> 503, isjson |-> FALSE, body |-> NoBody,
      retry_after |-> Absent, text |-> "<html>"],
     [net |-> "ok", status |-> 200, isjson |-> TRUE,
      body |-> [kind |-> "dict", success |-> "true", code |-> "TASK_COMPLETED",
                message |-> Absent, errors |-> Absent],
      retry_after |-> Absent, text |-> "<json>"],
     [net |-> "ok", status |-> 200, isjson |-> TRUE,
      body |-> [kind |-> "dict", success |-> "false", code |-> "TASK_FAILED",
                message |-> "boom", errors |-> Absent],
      retry_after |-> Absent, text |-> "<json>"]}

PairInit ==
    /\ p_mode = "none"
    /\ p_pc = [i \in Invocations |-> "loop"]
    /\ p_evts = [i \in Invocations |-> <<>>]
    /\ p_lines = [i \in Invocations |-> <<>>]
    /\ p_li = [i \in Invocations |-> 1]
    /\ p_step_index = [i \in Invocations |-> 0]
    /\ p_delta_index = [i \in Invocations |-> 0]
    /\ p_out = [i \in Invocations |-> <<>>]
    /\ q_pc = [i \in Invocations |-> "idle"]
    /\ q_stream = [i \in Invocations |-> FALSE]
    /\ q_attempt = [i \in Invocations |-> 0]
    /\ q_last_error = [i \in Invocations |-> NoError]
    /\ q_hist = [i \in Invocations |-> <<>>]
    /\ q_result = [i \in Invocations |-> NoResult]

wrapPair == <<p_pc, p_evts, p_lines, p_li, p_step_index, p_delta_index, p_out>>
requestPair == <<q_pc, q_stream, q_attempt, q_last_error, q_hist, q_result>>

\* one adapter wraps two sources: wrap_stream is called twice and returns
\* two generators (lines 61-146); nothing runs until they are iterated
PairWrapStreams ==
    /\ p_mode = "none"
    /\ p_mode' = "streams"
    /\ UNCHANGED <<wrapPair, requestPair>>
    /\ UNCHANGED <<oldvars, dvars, ovars>>

\* one client is configured (lines 27-39) and _request_with_retry is entered
\* twice
PairEnterRequests ==
    /\ p_mode = "none"
    /\ p_mode' = "requests"
    /\ max_retries' \in 0..PairMaxRetries
    /\ backoff_factor' = 1
    /\ q_stream' \in [Invocations -> BOOLEAN]
    /\ q_pc' = [i \in Invocations |-> "attempting"]
    /\ UNCHANGED <<q_attempt, q_last_error, q_hist, q_result>>
    /\ UNCHANGED wrapPair
    /\ UNCHANGED <<c_pc, stream, attempt, last_error, c_resp, c_hist, c_trace, c_result,
                   api_key, headers, c_sent>>
    /\ UNCHANGED <<wvars, svars, nvars, avars, dvars, ovars>>

\* generator i: for sg_evt in sg_sse_stream (lines 94-110)
PairTakeEvent(i) ==
    /\ p_mode = "streams"
    /\ p_pc[i] = "loop"
    /\ Len(p_evts[i]) < PairMaxEvents
    /\ \E e \in PairEvents :
        LET lines == ExtractReasoningLines(e.data) IN
        /\ p_evts' = [p_evts EXCEPT ![i] = Append(@, e)]
        /\ IF e.event = "end"
           THEN /\ p_pc' = [p_pc EXCEPT ![i] = AfterEnd]
                /\ UNCHANGED <<p_lines, p_li>>
           ELSE IF e.event # "stream"
           THEN /\ p_pc' = [p_pc EXCEPT ![i] = AfterOtherEvent]
                /\ UNCHANGED <<p_lines, p_li>>
           ELSE /\ p_lines' = [p_lines EXCEPT ![i] = lines]
                /\ p_li' = [p_li EXCEPT ![i] = 1]
                /\ p_pc' = [p_pc EXCEPT ![i] = IF lines = <<>> THEN "loop" ELSE "delta"]
    /\ UNCHANGED <<p_mode, p_step_index, p_delta_index, p_out, requestPair>>
    /\ UNCHANGED <<oldvars, dvars, ovars>>

\* generator i: its source is exhausted
PairSourceEnd(i) ==
    /\ p_mode = "streams"
    /\ p_pc[i] = "loop"
    /\ p_pc' = [p_pc EXCEPT ![i] = "completed"]
    /\ UNCHANGED <<p_mode, p_evts, p_lines, p_li, p_step_index, p_delta_index,
                   p_out, requestPair>>
    /\ UNCHANGED <<oldvars, dvars, ovars>>

\* generator i: lines 113-125
PairYieldDelta(i) ==
    /\ p_mode = "streams"
    /\ p_pc[i] = "delta"
    /\ p_out' = [p_out EXCEPT ![i] =
                    Append(@, DeltaFrame(p_lines[i][p_li[i]],
                                         p_step_index[LocalsOf(i)],
                                         p_delta_index[LocalsOf(i)]))]
    /\ p_delta_index' = [p_delta_index EXCEPT ![LocalsOf(i)] = @ + 1]
    /\ p_li' = [p_li EXCEPT ![i] = @ + 1]
    /\ p_pc' = [p_pc EXCEPT ![i] = IF p_li[i] >= Len(p_lines[i]) THEN "step" ELSE "delta"]
    /\ UNCHANGED <<p_mode, p_evts, p_lines, p_step_index, requestPair>>
    /\ UNCHANGED <<oldvars, dvars, ovars>>

\* generator i: lines 128-136
PairYieldStep(i) ==
    /\ p_mode = "streams"
    /\ p_pc[i] = "step"
    /\ p_out' = [p_out EXCEPT ![i] =
                    Append(@, StepFrame(p_lines[i], p_step_index[LocalsOf(i)]))]
    /\ p_step_index' = [p_step_index EXCEPT ![LocalsOf(i)] = @ + 1]
    /\ p_pc' = [p_pc EXCEPT ![i] = "loop"]
    /\ UNCHANGED <<p_mode, p_evts, p_lines, p_li, p_delta_index, requestPair>>
    /\ UNCHANGED <<oldvars, dvars, ovars>>

\* generator i: lines 140-144
PairYieldCompleted(i) ==
    /\ p_mode = "streams"
    /\ p_pc[i] = "completed"
    /\ p_out' = [p_out EXCEPT ![i] = Append(@, CompletedFrame)]
    /\ p_pc' = [p_pc EXCEPT ![i] = "done"]
    /\ UNCHANGED <<p_mode, p_evts, p_lines, p_li, p_step_index, p_delta_index,
                   requestPair>>
    /\ UNCHANGED <<oldvars, dvars, ovars>>

\* one iteration of the for-loop of _request_with_retry (lines 86-158) with
\* attempt a, outcome o, stream argument strm and last_error le: the new
\* last_error, and how the iteration ends (NoResult: sleep and continue)
Iteration(a, o, strm, le) ==
    IF o.net = "fail"
    THEN LET error == ApiError("Network error", NoStatus, Absent, Absent,
                               [empty |-> TRUE])
         IN [last_error |-> error,
             ends |-> IF NetAttemptsExhausted(a) THEN Raised(error) ELSE NoResult]
    ELSE IF strm
    THEN [last_error |-> le,
          ends |-> IF StreamHttpError(o.status)
                   THEN Raised(ApiError("HTTP error in streaming mode", o.status,
                                        Absent, Absent, [text |-> o.text]))
                   ELSE Returned(o)]
    ELSE IF ~o.isjson
    THEN LET error == ApiError("Response is not valid JSON", o.status, Absent,
                               Absent, [raw |-> o.text])
         IN [last_error |-> error,
             ends |-> IF ShouldRetry(o.status) /\ AttemptsRemain(a)
                      THEN NoResult ELSE Raised(error)]
    ELSE IF o.body.kind # "dict"
    THEN [last_error |-> le, ends |-> Raised(AttributeError)]
    ELSE IF HttpError(o)
    THEN [last_error |-> le,
          ends |-> Raised(ApiError(Get(o.body.message, "HTTP error"), o.status,
                                   o.body.code, o.body.errors, o.body))]
    ELSE IF NotSuccess(o.body) /\ o.body.code \in A2A_FATAL_CODES
    THEN [last_error |-> le,
          ends |-> Raised(ApiError(Get(o.body.message, ""), o.status,
                                   o.body.code, o.body.errors, o.body))]
    ELSE [last_error |-> le, ends |-> Returned(o.body)]

\* lines 160-162: what the call raises when the for-loop ends
LoopExhausted(le) ==
    IF le.type # "None" THEN Raised(le)
    ELSE Raised(ApiError("Unknown error after retries", NoStatus, Absent, Absent,
                         [empty |-> TRUE]))

\* call i: one iteration of its for-loop
PairAttempt(i) ==
    /\ p_mode = "requests"
    /\ q_pc[i] = "attempting"
    /\ q_attempt[LocalsOf(i)] < max_retries
    /\ \E o \in PairOutcomes :
        LET a == q_attempt[LocalsOf(i)] + 1
            it == Iteration(a, o, q_stream[i], q_last_error[LocalsOf(i)])
        IN /\ q_attempt' = [q_attempt EXCEPT ![LocalsOf(i)] = a]
           /\ q_last_error' = [q_last_error EXCEPT ![LocalsOf(i)] = it.last_error]
           /\ q_hist' = [q_hist EXCEPT ![i] = Append(@, o)]
           /\ IF it.ends = NoResult
              THEN UNCHANGED <<q_pc, q_result>>
              ELSE /\ q_pc' = [q_pc EXCEPT ![i] = "done"]
                   /\ q_result' = [q_result EXCEPT ![i] = it.ends]
    /\ UNCHANGED <<p_mode, q_stream, wrapPair>>
    /\ UNCHANGED <<oldvars, dvars, ovars>>

\* call i: its for-loop ended without returning or raising
PairLoopExhausted(i) ==
    /\ p_mode = "requests"
    /\ q_pc[i] = "attempting"
    /\ q_attempt[LocalsOf(i)] >= max_retries
    /\ q_pc' = [q_pc EXCEPT ![i] = "done"]
    /\ q_result' = [q_result EXCEPT ![i] = LoopExhausted(q_last_error[LocalsOf(i)])]
    /\ UNCHANGED <<p_mode, q_stream, q_attempt, q_last_error, q_hist, wrapPair>>
    /\ UNCHANGED <<oldvars, dvars, ovars>>

PairNext ==
    \/ PairWrapStreams
    \/ PairEnterRequests
    \/ \E i \in Invocations : PairTakeEvent(i)
    \/ \E i \in Invocations : PairSourceEnd(i)
    \/ \E i \in Invocations : PairYieldDelta(i)
    \/ \E i \in Invocations : PairYieldStep(i)
    \/ \E i \in Invocations : PairYieldCompleted(i)
    \/ \E i \in Invocations : PairAttempt(i)
    \/ \E i \in Invocations : PairLoopExhausted(i)

----------------------------------------------------------------------------
(* OpenAIA2AAdapter: manifest, run, status, result, stream *)

\* most events the generator returned by stream takes
StreamMaxEvents == 3

AdapterOperations == {"manifest", "run", "status", "result"}

\* the method of self.client an operation of the adapter calls
ClientOperation(op) ==
    IF op = "result" THEN "results" ELSE IF op = "stream" THEN "run" ELSE op

AdapterAgentIds == {JS("tariff_calc"), JS(""), JInt(5)}
AdapterTexts == {JS("import 100kg"), JS(""), JS("  ")}
AdapterTaskIds == {JS("t_123"), JS(""), JS("  "), JNull}

\* an api_code that is a JSON list: data.get("code") of a 4xx body
\* (agent_client.py:139) is whatever the gateway sent
ListCode == "<list>"

\* what the gateway's envelope is when the client returns one
AdapterEnvelopes ==
    {Envelope(JS("TASK_COMPLETED"), Missing,
              SgData(JS("t_123"), JS("Please confirm the HTS code.")), BareRest),
     Envelope(JS("WAITING_USER"), JS("More information required."),
              SgData(Missing, [t |-> "dict", prompt |-> JS("Which country?")]), BareRest),
     Envelope(JS("TASK_RUNNING"), JS("More information required."), JS("oops"), BareRest),
     Envelope(JS("TASK_FAILED"), JS("More information required."), Missing, FullRest),
     Envelope(JS("TASK_RUNNING"), Missing, FullData, FullRest),
     [t |-> "dict", agent_id |-> JS("tariff_calc")]}

\* how a call of self.client with valid arguments ends: it returns the
\* envelope, or _request_with_retry raises
ClientBehaviours ==
    {Returned(e) : e \in AdapterEnvelopes}
    \cup {Raised(ApiError("Network error", NoStatus, Absent, Absent, [empty |-> TRUE])),
          Raised(ApiError("boom", 404, "INVALID_REQUEST", "detail", [empty |-> TRUE])),
          Raised(ApiError("", 200, "UNAUTHORIZED", Absent, [empty |-> TRUE])),
          Raised(ApiError("boom", 404, ListCode, Absent, [empty |-> TRUE])),
          Raised(AttributeError)}

\* the same for run(stream=True): parse_sse(resp) is returned, or
\* _request_with_retry raises
StreamingEvents == [t |-> "generator", of |-> "parse_sse"]
StreamBehaviours ==
    {Returned(StreamingEvents),
     Raised(ApiError("Network error", NoStatus, Absent, Absent, [empty |-> TRUE])),
     Raised(ApiError("HTTP error in streaming mode", 503, Absent, Absent,
                     [text |-> "<html>"]))}

\* self.client.<op>(...): the validations of the public method, then the
\* request
ClientDoes(call, behaviour) ==
    LET error == Validate(ClientOperation(call.op), call.agent_id, call.text,
                          call.task_id)
    IN IF error # NoError THEN Raised(error) ELSE behaviour

\* a str: SupplyGraphAPIError.__str__ gives
\* "[SupplyGraphAPIError] <api_code or ''> <args[0]>" and " (HTTP n)" when
\* http_status is truthy; any other text has only the part `text`
PlainStr(text) == [prefix |-> "", code |-> "", text |-> text, http |-> NoStatus]
ErrorStr(e) ==
    IF e.type = "SupplyGraphAPIError"
    THEN [prefix |-> "[SupplyGraphAPIError]",
          code |-> IF e.api_code = Absent THEN "" ELSE e.api_code,
          text |-> e.message, http |-> e.http_status]
    ELSE PlainStr(e.message)

\* OpenAIA2AErrorAdapter.SG_TO_OPENAI_TYPE and DEFAULT_ERROR_TYPE
SG_TO_OPENAI_TYPE ==
    [code \in {"INVALID_REQUEST", "INVALID_INTENT", "UNAUTHORIZED",
               "INSUFFICIENT_CREDITS", "RATE_LIMITED", "TASK_CANCELLED",
               "TASK_FAILED", "TARGET_UNAVAILABLE", "TIMEOUT"} |->
        IF code \in {"INVALID_REQUEST", "INVALID_INTENT"} THEN "invalid_request_error"
        ELSE IF code = "UNAUTHORIZED" THEN "authentication_error"
        ELSE IF code = "INSUFFICIENT_CREDITS" THEN "payment_required_error"
        ELSE IF code = "RATE_LIMITED" THEN "rate_limit_error"
        ELSE IF code = "TASK_CANCELLED" THEN "operation_canceled_error"
        ELSE "server_error"]
DEFAULT_ERROR_TYPE == "server_error"

\* TypeError("unhashable type: 'list'")
TypeError ==
    [type |-> "TypeError", message |-> "unhashable type: 'list'",
     http_status |-> NoStatus, api_code |-> Absent, errors |-> Absent,
     payload |-> [empty |-> TRUE]]

\* NameError: the name bound by `except ... as e` is deleted when the except
\* clause is left
NameError ==
    [type |-> "NameError", message |-> "cannot access free variable 'e'",
     http_status |-> NoStatus, api_code |-> Absent, errors |-> Absent,
     payload |-> [empty |-> TRUE]]

\* requests raises from response.iter_lines when the connection is lost
ConnectionLost ==
    [type |-> "ChunkedEncodingError", message |-> "Connection broken",
     http_status |-> NoStatus, api_code |-> Absent, errors |-> Absent,
     payload |-> [empty |-> TRUE]]

\* build_openai_error(code, message, details): the envelope, or the
\* TypeError of SG_TO_OPENAI_TYPE.get on a code that cannot be hashed
ToOpenaiError(code, message, details) ==
    IF code = ListCode THEN Raised(TypeError)
    ELSE Returned(
        [t |-> "dict", object |-> "agent.error",
         type |-> IF code \in DOMAIN SG_TO_OPENAI_TYPE
                  THEN SG_TO_OPENAI_TYPE[code] ELSE DEFAULT_ERROR_TYPE,
         message |-> IF message = PlainStr("") THEN PlainStr("An error occurred.")
                     ELSE message,
         code |-> IF code \in {Absent, ""} THEN "UNKNOWN_ERROR" ELSE code,
         param |-> JNull,
         details |-> IF details \in {Absent, ""} THEN "{}" ELSE details])

\* build_openai_exception(exc)
FromException(exc) ==
    Returned(
        [t |-> "dict", object |-> "agent.error", type |-> DEFAULT_ERROR_TYPE,
         message |-> IF ErrorStr(exc) = PlainStr("")
                     THEN PlainStr("Internal server error.") ELSE ErrorStr(exc),
         code |-> "INTERNAL_ERROR", param |-> JNull,
         details |-> "<traceback>"])

\* the two except clauses of manifest, run, status and result
HandleException(e) ==
    IF e.type = "SupplyGraphAPIError"
    THEN ToOpenaiError(e.api_code, ErrorStr(e), e.errors)
    ELSE FromException(e)

\* build_openai_manifest(sg): the object and id keys of the manifest
BuildOpenaiManifest(sg) ==
    [t |-> "dict", object |-> "agent", id |-> DictGet(sg, "agent_id", JNull)]

\* the statement after the client call: the normalizer of the operation
Normalize(call, sg, r) ==
    IF call.op = "manifest" THEN BuildOpenaiManifest(sg)
    ELSE NormalizerCall(call.op, call.agent_id.s, sg, r[1], r[2], r[3])

\* the body of manifest, run, status and result, given what the client did
\* (NoResult: it was not called)
AdapterReturns(call, did, r) ==
    IF did = NoResult
    THEN ToOpenaiError("INVALID_REQUEST",
                       PlainStr("Missing required parameter: task_id."), "")
    ELSE IF did.kind = "raise" THEN HandleException(did.error)
    ELSE IF Normalize(call, did.value, r).t = "raise"
    THEN FromException([AttributeError EXCEPT !.type = Normalize(call, did.value, r).type])
    ELSE Returned(Normalize(call, did.value, r))

NoAdapterCall == [op |-> "none", agent_id |-> JNull, text |-> JNull, task_id |-> JNull]

AdapterInit ==
    /\ o_pc = "idle"
    /\ o_call = NoAdapterCall
    /\ o_client = NoResult
    /\ o_result = NoResult
    /\ o_taken = 0
    /\ o_step_index = 0
    /\ o_delta_index = 0
    /\ o_frames = <<>>
    /\ o_raised = NoError

\* manifest, run, status or result is called (lines 73-191)
AdapterCall ==
    /\ o_pc = "idle"
    /\ \E op \in AdapterOperations, agent_id \in AdapterAgentIds,
          text \in AdapterTexts \cup {JNull}, task_id \in AdapterTaskIds,
          behaviour \in ClientBehaviours, r \in Readings("status", Epoch) :
        LET call == [op |-> op, agent_id |-> agent_id, text |-> text,
                     task_id |-> task_id]
            did == IF op \in {"status", "result"} /\ ~Truthy(task_id)
                   THEN NoResult ELSE ClientDoes(call, behaviour)
        IN /\ (text = JNull) = (op # "run")
           /\ op \in {"manifest", "run"} => task_id = JNull
           /\ behaviour.kind = "return" =>
                 (op = "manifest") = ~Has(behaviour.value, "code")
           /\ o_call' = call
           /\ o_client' = did
           /\ o_result' = AdapterReturns(call, did, r)
           /\ o_pc' = IF AdapterReturns(call, did, r).kind = "raise"
                      THEN "raised" ELSE "returned"
    /\ UNCHANGED <<o_taken, o_step_index, o_delta_index, o_frames, o_raised>>
    /\ UNCHANGED <<oldvars, dvars, pvars>>

\* what stream returns: the generator of wrap_stream, or err_gen / exc_gen
\* of the except clauses (lines 220-242)
GeneratorOf(did) ==
    [t |-> "generator",
     of |-> IF did.kind = "return" THEN "wrap_stream"
            ELSE IF did.error.type = "SupplyGraphAPIError" THEN "err_gen"
            ELSE "exc_gen"]

\* stream is called (lines 196-242)
AdapterStream ==
    /\ o_pc = "idle"
    /\ \E agent_id \in AdapterAgentIds, text \in AdapterTexts,
          behaviour \in StreamBehaviours :
        LET call == [op |-> "stream", agent_id |-> agent_id, text |-> text,
                     task_id |-> JNull]
        IN /\ o_call' = call
           /\ o_client' = ClientDoes(call, behaviour)
           /\ o_result' = Returned(GeneratorOf(ClientDoes(call, behaviour)))
    /\ o_pc' = "streaming"
    /\ UNCHANGED <<o_taken, o_step_index, o_delta_index, o_frames, o_raised>>
    /\ UNCHANGED <<oldvars, dvars, pvars>>

\* the consumer iterates err_gen or exc_gen: `yield self._error_as_sse(e)`
\* (lines 235-236, 240-241) runs after the except clause was left, when the
\* name e is no longer bound
StreamErrorGenerator ==
    /\ o_pc = "streaming"
    /\ o_result.value.of \in {"err_gen", "exc_gen"}
    /\ o_raised' = NameError
    /\ o_pc' = "raised"
    /\ UNCHANGED <<o_call, o_client, o_result, o_taken, o_step_index,
                   o_delta_index, o_frames>>
    /\ UNCHANGED <<oldvars, dvars, pvars>>

\* the step.delta frames of the lines of one event
RECURSIVE DeltaFrames(_, _, _)
DeltaFrames(lines, si, di) ==
    IF lines = <<>> THEN <<>>
    ELSE <<DeltaFrame(Head(lines), si, di)>> \o DeltaFrames(Tail(lines), si, di + 1)

\* the consumer iterates the generator of wrap_stream: it takes the next
\* event of parse_sse and the consumer receives the frames of that event
\* (reasoning_sse_adapter.py:94-144)
StreamTakeEvent ==
    /\ o_pc = "streaming"
    /\ o_result.value.of = "wrap_stream"
    /\ o_taken < StreamMaxEvents
    /\ \E e \in PairEvents :
        LET lines == IF e.event = "stream" THEN ExtractReasoningLines(e.data) ELSE <<>>
        IN /\ o_taken' = o_taken + 1
           /\ IF e.event = "end"
              THEN /\ o_frames' = Append(o_frames, CompletedFrame)
                   /\ o_pc' = "exhausted"
                   /\ UNCHANGED <<o_step_index, o_delta_index>>
              ELSE IF lines = <<>>
              THEN UNCHANGED <<o_frames, o_pc, o_step_index, o_delta_index>>
              ELSE /\ o_frames' = o_frames \o DeltaFrames(lines, o_step_index, o_delta_index)
                                     \o <<StepFrame(lines, o_step_index)>>
                   /\ o_step_index' = o_step_index + 1
                   /\ o_delta_index' = o_delta_index + Len(lines)
                   /\ UNCHANGED o_pc
    /\ UNCHANGED <<o_call, o_client, o_result, o_raised>>
    /\ UNCHANGED <<oldvars, dvars, pvars>>

\* the source is exhausted: the completed frame
StreamSourceEnd ==
    /\ o_pc = "streaming"
    /\ o_result.value.of = "wrap_stream"
    /\ o_frames' = Append(o_frames, CompletedFrame)
    /\ o_pc' = "exhausted"
    /\ UNCHANGED <<o_call, o_client, o_result, o_taken, o_step_index,
                   o_delta_index, o_raised>>
    /\ UNCHANGED <<oldvars, dvars, pvars>>

\* response.iter_lines raises while parse_sse reads the next line
\* (stream_parser.py:30): neither parse_sse nor wrap_stream catches it
StreamSourceRaises ==
    /\ o_pc = "streaming"
    /\ o_result.value.of = "wrap_stream"
    /\ o_raised' = ConnectionLost
    /\ o_pc' = "raised"
    /\ UNCHANGED <<o_call, o_client, o_result, o_taken, o_step_index,
                   o_delta_index, o_frames>>
    /\ UNCHANGED <<oldvars, dvars, pvars>>

AdapterNext ==
    \/ AdapterCall
    \/ AdapterStream
    \/ StreamErrorGenerator
    \/ StreamTakeEvent
    \/ StreamSourceEnd
    \/ StreamSourceRaises

----------------------------------------------------------------------------
(* Specifications *)

vars == <<wvars, cvars, svars, nvars, avars, xvars>>

Init == WrapInit /\ ClientInit /\ SseInit /\ NormInit /\ ApiInit /\ RepeatInit /\ PairInit /\ AdapterInit

WrapSpec == Init /\ [][WrapNext]_vars

ClientSpec == Init /\ [][ClientNext]_vars

SseSpec == Init /\ [][SseNext]_vars

NormSpec == Init /\ [][NormNext]_vars

RepeatSpec == Init /\ [][RepeatNext]_vars

PairSpec == Init /\ [][PairNext]_vars

AdapterSpec == Init /\ [][AdapterNext]_vars

ApiSpec == Init /\ [][ApiNext]_vars

----------------------------------------------------------------------------
(* Properties of wrap_stream *)

\* the positions of w_out holding a frame named ev
FramesNamed(ev) == {i \in 1..Len(w_out) : w_out[i].event = ev}

\* the reasoning list an input event carries: payload.reasoning, else
\* payload.data.reasoning, else none
CarriedLines(e) ==
    IF e.data.isdict /\ e.data.reasoning.islist THEN e.data.reasoning.items
    ELSE IF e.data.isdict /\ e.data.data.isdict /\ e.data.data.reasoning.islist
         THEN e.data.data.reasoning.items
         ELSE <<>>

C3_Counters ==
    LET deltas == FramesNamed("step.delta")
        steps == FramesNamed("step")
    IN  /\ \A i \in deltas :
              /\ w_out[i].delta_index = Cardinality({j \in deltas : j < i})
              /\ w_out[i].index = Cardinality({j \in steps : j < i})
              /\ w_pc \in {"loop", "completed", "done"} =>
                    \E j \in steps :
                        /\ j > i
                        /\ \A m \in steps : m > i => m >= j
                        /\ w_out[j].index = w_out[i].index
        /\ \A j \in steps : w_out[j].index = Cardinality({m \in steps : m < j})
        /\ delta_index = Cardinality(deltas)
        /\ step_index = Cardinality(steps)

\* C3 witness: two emitting events with a skipped event between them
C3_Witness ==
    /\ w_pc = "done"
    /\ w_skipped >= 1
    /\ Cardinality(FramesNamed("step")) = 2
    /\ Cardinality(FramesNamed("step.delta")) >= 3
    /\ w_out[1].event = "step.delta"
    /\ sg_evt.event = "stream" /\ CarriedLines(sg_evt) # <<>>

\* the event is one the re-emitter passes over: its type is neither "stream"
\* nor "end", or it is a `stream` event that carries no reasoning line
IsSkipped(e) ==
    \/ e.event \notin {"stream", "end"}
    \/ e.event = "stream" /\ CarriedLines(e) = <<>>

FramesDue(e) ==
    IF IsSkipped(e) \/ e.event = "end" THEN 0 ELSE Len(CarriedLines(e)) + 1

\* every frame of the events taken so far has been pulled by the consumer:
\* the latest event's frames are all in w_out, the last of them a step frame
AllPulled ==
    w_taken > 0 =>
        /\ Len(w_out) = w_mark + FramesDue(sg_evt)
        /\ FramesDue(sg_evt) > 0 => w_out[Len(w_out)].event = "step"

\* C19: the re-emitter takes an event from its source only in a step where
\* the consumer has pulled every frame of the events before it (none is
\* taken while delta or step frames are still due), and once it has taken
\* an `end` event it never takes another event from the source.
C19_PullDriven ==
    [][/\ w_taken' # w_taken =>
             /\ w_taken' = w_taken + 1
             /\ AllPulled
             /\ ~w_ended
       /\ w_ended => w_taken' = w_taken]_vars

\* C19 witness: an `end` event was taken after the three frames of an event
\* with two reasoning lines were pulled, and the source still had an event
\* to give
C19_Witness ==
    /\ w_ended
    /\ w_taken = 2
    /\ w_taken < MaxEvents
    /\ Len(w_out) >= 3
    /\ w_out[3].event = "step"
    /\ w_mark = 3

----------------------------------------------------------------------------
(* Properties of AgentClient._request_with_retry *)

Ended == c_pc \in {"returned", "raised"}

\* the positions of c_trace holding a call of kind op
OpsNamed(op) == {i \in 1..Len(c_trace) : c_trace[i].op = op}

\* an HTTP 429 or 5xx response
Is429Or5xx(o) == o.net = "ok" /\ (o.status = 429 \/ o.status >= 500)

\* a JSON object answered with an HTTP status below 400
IsBusinessResponse(o) ==
    o.net = "ok" /\ o.isjson /\ o.body.kind = "dict" /\ o.status < 400

\* C4: in a non-streaming call with attempts remaining, an HTTP 429 or 5xx
\* response (its body not JSON, or a JSON object) is retried rather than
\* raised; with max_retries = 3, two HTTP 503 answers followed by a success
\* make the call return the success payload.
C4_Retries429And5xx ==
    /\ ~(/\ Ended /\ ~stream
         /\ Is429Or5xx(c_resp) /\ c_resp.body.kind # "list"
         /\ attempt < max_retries)
    /\ (/\ ~stream /\ max_retries = 3 /\ Len(c_hist) = 3
        /\ c_hist[1].status = 503 /\ c_hist[2].status = 503
        /\ IsBusinessResponse(c_hist[3]) /\ c_hist[3].body.success = "true")
          => c_result = Returned(c_hist[3].body)

\* C5: the sleep before the k-th retry lasts backoff_factor * 2^(k-1),
\* unless the failed response carries a Retry-After header that parses as a
\* number, in which case it lasts exactly that number.
C5_RetryDelay ==
    \A i \in OpsNamed("sleep") :
        LET k == c_trace[i].attempt
            failed == c_hist[k]
        IN  c_trace[i].delay =
                IF failed.net = "ok" /\ failed.retry_after = "7"
                THEN 7
                ELSE backoff_factor * Pow2(k - 1)

\* an outcome the client retries: a connection failure, or a non-JSON body
\* answered with HTTP 429 or 5xx
RetriedFailure(o) == o.net = "fail" \/ (~o.isjson /\ Is429Or5xx(o))

\* C6: a non-streaming call makes at most max_retries HTTP attempts, one
\* after the other; it can always move on until it has returned or raised; a
\* connection failure is retried while attempts remain; every sleep lies
\* between two attempts (none after the final one); and when every attempt
\* failed with a retried error, the call raises the error of the last attempt.
C6_BoundedRetries ==
    (c_pc # "idle" /\ ~stream) =>
        /\ attempt <= max_retries
        /\ Len(c_hist) = attempt
        /\ Cardinality(OpsNamed("request")) = attempt
        /\ Ended \/ ENABLED ClientNext
        /\ \A i \in OpsNamed("request") : i > 1 => c_trace[i - 1].op = "sleep"
        /\ \A i \in OpsNamed("sleep") :
              /\ i > 1 /\ c_trace[i - 1].op = "request"
              /\ i < Len(c_trace) => c_trace[i + 1].op = "request"
              /\ i = Len(c_trace) => (c_pc = "attempting" /\ ENABLED ClientAttempt)
        /\ (c_resp.net = "fail" /\ attempt < max_retries) => c_pc = "attempting"
        /\ (/\ attempt >= 1
            /\ attempt = max_retries
            /\ \A i \in 1..attempt : RetriedFailure(c_hist[i])) =>
              /\ c_pc = "raised"
              /\ c_result.kind = "raise"
              /\ c_result.error.type = "SupplyGraphAPIError"
              /\ c_result.error.http_status = c_hist[attempt].status
              /\ c_result.error.message =
                    (IF c_hist[attempt].net = "fail" THEN "Network error"
                     ELSE "Response is not valid JSON")

\* C6 witness: three attempts, the first two slept after, all failed, and
\* the error of the third (a non-JSON 503) was raised
C6_Witness ==
    /\ ~stream
    /\ c_pc = "raised"
    /\ max_retries = 3
    /\ attempt = 3
    /\ Cardinality(OpsNamed("sleep")) = 2
    /\ c_hist[1].net = "fail"
    /\ c_hist[2].net = "fail"
    /\ c_hist[3].net = "ok" /\ c_hist[3].status = 503 /\ ~c_hist[3].isjson
    /\ c_result.error.http_status = 503

\* C7: a non-streaming JSON response with HTTP status < 400, success false
\* and a code among INVALID_REQUEST, UNAUTHORIZED, TASK_FAILED,
\* TASK_CANCELLED ends the call at that attempt: a SupplyGraphAPIError is
\* raised with that api_code and the response message, and no sleep or
\* further request follows the request that received it.
C7_FatalCodeRaised ==
    (/\ c_pc # "idle" /\ ~stream
     /\ IsBusinessResponse(c_resp)
     /\ c_resp.body.success = "false"
     /\ c_resp.body.code \in {"INVALID_REQUEST", "UNAUTHORIZED", "TASK_FAILED",
                              "TASK_CANCELLED"}) =>
        /\ c_pc = "raised"
        /\ c_result.kind = "raise"
        /\ c_result.error.type = "SupplyGraphAPIError"
        /\ c_result.error.api_code = c_resp.body.code
        /\ c_result.error.message =
              (IF c_resp.body.message = Absent THEN "" ELSE c_resp.body.message)
        /\ c_trace[Len(c_trace)] = RequestOp(attempt)
        /\ attempt = 1 => c_trace = <<RequestOp(1)>>

\* C7 witness: TASK_CANCELLED with success false, answered with HTTP 200 to
\* the first attempt, was raised
C7_Witness ==
    /\ ~stream
    /\ c_pc = "raised"
    /\ attempt = 1
    /\ max_retries = 3
    /\ c_resp.status = 200
    /\ IsBusinessResponse(c_resp)
    /\ c_resp.body.success = "false"
    /\ c_resp.body.code = "TASK_CANCELLED"
    /\ c_resp.body.message = "boom"
    /\ c_result.error.message = "boom"

\* C8: a non-streaming JSON response with HTTP status < 400 and code
\* WAITING_USER is returned as the payload, whatever its success flag, and
\* no sleep or further request follows the request that received it.
C8_WaitingUserReturned ==
    (/\ c_pc # "idle" /\ ~stream
     /\ IsBusinessResponse(c_resp)
     /\ c_resp.body.code = "WAITING_USER") =>
        /\ c_pc = "returned"
        /\ c_result = Returned(c_resp.body)
        /\ c_trace[Len(c_trace)] = RequestOp(attempt)
        /\ attempt = 1 => c_trace = <<RequestOp(1)>>

\* C8 witness: WAITING_USER with success false was returned from the first
\* attempt
C8_Witness ==
    /\ ~stream
    /\ c_pc = "returned"
    /\ attempt = 1
    /\ max_retries = 3
    /\ IsBusinessResponse(c_resp)
    /\ c_resp.body.success = "false"
    /\ c_resp.body.code = "WAITING_USER"
    /\ c_result.value.code = "WAITING_USER"

\* C9: a streaming call (of a client with max_retries >= 1) makes exactly
\* one HTTP attempt whatever the outcome, and never sleeps.
C9_StreamingSingleAttempt ==
    (c_pc # "idle" /\ stream /\ max_retries >= 1) =>
        /\ Len(c_hist) <= 1
        /\ OpsNamed("sleep") = {}
        /\ Ended => Len(c_hist) = 1

\* C17: in a non-streaming call, after a response whose body is not valid
\* JSON the call goes on to another attempt while attempts remain, whatever
\* the HTTP status (2xx included), and raises the error for the non-JSON
\* body once they are exhausted.
C17_NonJsonRetried ==
    (c_pc # "idle" /\ ~stream /\ c_resp.net = "ok" /\ ~c_resp.isjson) =>
        /\ attempt < max_retries => c_pc = "attempting"
        /\ attempt >= max_retries =>
              /\ c_pc = "raised"
              /\ c_result = Raised(ApiError("Response is not valid JSON", c_resp.status,
                                            Absent, Absent, [raw |-> c_resp.text]))

\* C20: a streaming call that got a response ends at once: with HTTP status
\* >= 400 it raises the transport error carrying that status and the raw
\* response text as payload; with status < 400 it returns the response
\* itself, whatever its body (JSON or not, fatal business code or not).
C20_StreamingResponse ==
    (stream /\ Ended /\ c_resp.net = "ok") =>
        /\ c_trace[Len(c_trace)] = RequestOp(attempt)
        /\ c_hist[Len(c_hist)] = c_resp
        /\ c_resp.status >= 400 =>
              c_result = Raised(ApiError("HTTP error in streaming mode", c_resp.status,
                                         Absent, Absent, [text |-> c_resp.text]))
        /\ c_resp.status < 400 => c_result = Returned(c_resp)

\* C20 witness: a streaming call raised on its first response, a 404
C20_Witness ==
    /\ stream
    /\ c_pc = "raised"
    /\ Len(c_hist) = 1
    /\ c_resp.net = "ok"
    /\ c_resp.status = 404
    /\ c_result.error.http_status = 404
    /\ c_result.error.payload = [text |-> c_resp.text]

----------------------------------------------------------------------------
(* Properties of AgentClient.run, status, results *)

\* the argument is empty or not a string
EmptyOrNonString(v) == v.t # "str" \/ v.s = ""

\* the argument is a string that is empty or white space only
Blank(v) == v.t = "str" /\ v.s \in WhiteSpaceOnly

\* the call is one the operation must refuse
RefusedCall ==
    \/ a_call.op = "run" /\ (EmptyOrNonString(a_call.agent_id) \/ Blank(a_call.text))
    \/ a_call.op \in {"status", "results"}
          /\ (EmptyOrNonString(a_call.agent_id) \/ Blank(a_call.task_id))

\* C18: run with an empty or non-string agent id or blank text, and status or
\* results with an empty agent id or blank task id, raise ValueError (not the
\* transport error) without any HTTP request and without any sleep.
C18_ValidationFirst ==
    RefusedCall =>
        /\ c_pc = "raised"
        /\ c_result.kind = "raise"
        /\ c_result.error.type = "ValueError"
        /\ c_trace = <<>>
        /\ c_hist = <<>>
        /\ ~ENABLED ApiNext

\* C18 witness: status was called on a client that may make requests, with
\* a task id of white space only, and raised ValueError
C18_Witness ==
    /\ a_call.op = "status"
    /\ a_call.agent_id = JS("tariff_calc")
    /\ a_call.task_id = JS("  ")
    /\ max_retries >= 1
    /\ c_result = Raised(ValueError("task_id must be a non-empty string"))
    /\ c_trace = <<>>

----------------------------------------------------------------------------
(* Properties of parse_sse *)

\* the positions of s_out holding the end event
EndEvents == {i \in 1..Len(s_out) : s_out[i].event = "end"}

\* the latest flushed block held the single data line [DONE]
LastBlockIsDone ==
    s_flushed # <<>> /\ s_flushed[Len(s_flushed)] = <<"[DONE]">>

\* C10: when the flushed block's payload is exactly [DONE], the decoder
\* yields one event {event: "end", data: "[DONE]"} for it and no ordinary
\* event, then stops: it takes no further step, so it reads no later line
\* and yields no further event, whatever the source still holds.
C10_DoneStops ==
    /\ Len(s_out) = Len(s_flushed)
    /\ LastBlockIsDone =>
          /\ s_out[Len(s_out)] = EndEvent
          /\ EndEvents = {Len(s_out)}
          /\ s_pc = "done"
          /\ ~ENABLED SseNext

\* C10 witness: the sentinel block was flushed after an ordinary event and
\* before the source was read to its end
C10_Witness ==
    /\ LastBlockIsDone
    /\ Len(s_out) = 2
    /\ s_out[1].event = "stream"
    /\ s_out[2] = EndEvent
    /\ s_read < MaxSrcLines

\* the text of each line of a source block, in order
RECURSIVE BlockBodies(_)
BlockBodies(lines) ==
    IF lines = <<>> THEN <<>> ELSE <<Head(lines).body>> \o BlockBodies(Tail(lines))

\* the block's lines joined in order (white space around the whole trimmed)
BlockPayload(b) == JoinStrip(BlockBodies(b.lines))

\* no closed block of the source is the sentinel
SentinelFree == \A i \in 1..Len(s_blocks) : BlockPayload(s_blocks[i]) # <<"[DONE]">>

\* C11: for a source without the sentinel, the decoder yields exactly one
\* event per blank-line-terminated block holding data: or unprefixed lines,
\* in source order; the event's type is the text of the most recent event:
\* line (default "stream") and its data is those lines joined in order,
\* parsed as JSON, or the raw string when that fails.
C11_OneEventPerBlock ==
    SentinelFree =>
        /\ Len(s_out) = Len(s_blocks)
        /\ \A i \in 1..Len(s_blocks) :
              s_out[i] = [event |-> s_blocks[i].type,
                          data |-> JsonLoads(BlockPayload(s_blocks[i]))]

\* C11 witness: the block `data: {"a":1}` gave {event: stream, data: {a: 1}},
\* and after `event: update` a block of one unprefixed line gave a second
\* event of type update carrying the raw string
C11_Witness ==
    /\ Len(s_blocks) = 2
    /\ s_blocks[1] = [lines |-> <<[prefix |-> "data", body |-> "{\"a\":1}"]>>,
                      type |-> "stream"]
    /\ s_out[1] = [event |-> "stream", data |-> [kind |-> "json", json |-> [a |-> 1]]]
    /\ s_blocks[2] = [lines |-> <<[prefix |-> "none", body |-> "hello"]>>,
                      type |-> "update"]
    /\ s_out[2] = [event |-> "update", data |-> [kind |-> "text", text |-> <<"hello">>]]

\* what a step of the decoder may do to the events yielded
YieldingStep ==
    /\ s_out' # s_out =>
          /\ s_read' = s_read + 1
          /\ s_block # <<>> /\ s_block' = <<>>
          /\ data_buffer # <<>> /\ data_buffer' = <<>>
          /\ Len(s_out') = Len(s_out) + 1
          /\ s_flushed' = Append(s_flushed, data_buffer)
    /\ data_buffer = <<>> => s_out' = s_out
    /\ s_read' = s_read => s_out' = s_out /\ data_buffer' = data_buffer
    /\ s_pc = "done" => s_out' = s_out

\* C34: the decoder yields an event only in the step that reads a blank line
\* while data_buffer is non-empty, and that step empties the buffer: a blank
\* line read with an empty buffer (after another blank line, or after a
\* block of event: lines only) yields nothing, and when the source ends the
\* decoder returns without yielding what is still buffered.
C34_YieldOnlyOnBlankLine ==
    /\ [](/\ Len(s_out) = Len(s_flushed)
          /\ \A k \in DOMAIN s_flushed : s_flushed[k] # <<>>)
    /\ [][YieldingStep]_vars

\* C34 witness: the source ended after five lines, among them an event:
\* line and a blank line that closed no block, with one event yielded and
\* one line still buffered
C34_Witness ==
    /\ s_pc = "done"
    /\ s_read = 5
    /\ Len(s_out) = 1 /\ Len(s_blocks) = 1 /\ Len(s_blocks[1].lines) = 1
    /\ s_out[1].event = "stream"
    /\ event_type = "update"
    /\ Len(data_buffer) = 1

\* what a step of the decoder may do to the current event type
TypeStep ==
    /\ event_type' # event_type =>
          /\ s_read' = s_read + 1
          /\ s_type' = event_type'
          /\ s_out' = s_out
    /\ s_out' # s_out =>
          /\ event_type' = event_type
          /\ \/ s_out'[Len(s_out')] = EndEvent
             \/ s_out'[Len(s_out')].event = event_type

\* C35: the decoder's event type is the text of the last event: line read
\* ("stream" before any): it changes only in a step that reads an event:
\* line, never in a step that yields, and every ordinary event yielded
\* carries it, so a later block of data: lines only keeps the earlier type.
C35_TypeNeverReset ==
    /\ [](event_type = s_type)
    /\ [][TypeStep]_vars

\* C35 witness: after `event: update`, two blocks of data: lines gave two
\* events typed update, the second with no event: line of its own
C35_Witness ==
    /\ s_read = 5
    /\ Len(s_out) = 2 /\ Len(s_blocks) = 2
    /\ s_out[1].event = "update" /\ s_out[2].event = "update"
    /\ \A i \in 1..2 : Len(s_blocks[i].lines) = 1
                         /\ s_blocks[i].lines[1].prefix = "data"

----------------------------------------------------------------------------
(* Properties of the normalizers *)

\* the objects the three normalizers have returned for n_env so far
Normalized == {obj \in {n_run, n_status, n_result} : obj.t = "dict"}

\* the three normalizers have each returned an object for n_env
AllReturned == \A obj \in {n_run, n_status, n_result} : obj.t = "dict"

\* C12: in every object a normalizer returns, output is non-null only when
\* status is completed or requires_action, required_action is non-null only
\* when status is requires_action, and last_error is non-null only when
\* status is failed.
C12_OutputGating ==
    \A obj \in Normalized :
        /\ obj.output # JNull => obj.status \in {"completed", "requires_action"}
        /\ obj.required_action # JNull => obj.status = "requires_action"
        /\ obj.last_error # JNull => obj.status = "failed"

\* C12 witness: the three normalizers have returned, for one envelope, an
\* object that carries one of the three blocks, and the envelope holds
\* content
C12_Witness ==
    /\ AllReturned
    /\ n_run.output # JNull
    /\ n_status.required_action # JNull
    /\ n_result.required_action # JNull
    /\ n_env.data # Missing

\* the status groups of the vocabulary, by the status each stands for
StatusGroups ==
    [in_progress |-> SG_STATUS_IN_PROGRESS,
     requires_action |-> SG_STATUS_REQUIRES_ACTION,
     completed |-> SG_STATUS_COMPLETED,
     failed |-> SG_STATUS_FAILED,
     cancelled |-> SG_STATUS_CANCELLED]

\* the code is a string of the vocabulary
KnownCode(code) ==
    code.t = "str" /\ \E g \in DOMAIN StatusGroups : code.s \in StatusGroups[g]

\* C13: no code belongs to two status groups; every object a normalizer
\* returns has one of the five statuses, namely the status of the group that
\* holds the envelope's top-level code, and in_progress when the code is
\* unrecognized, empty, null or missing.
C13_StatusMapping ==
    /\ \A g \in DOMAIN StatusGroups : \A h \in DOMAIN StatusGroups :
          g # h => StatusGroups[g] \cap StatusGroups[h] = {}
    /\ \A obj \in Normalized :
          /\ obj.status \in DOMAIN StatusGroups
          /\ KnownCode(n_env.code) => n_env.code.s \in StatusGroups[obj.status]
          /\ ~KnownCode(n_env.code) => obj.status = "in_progress"

\* C13 witness: the three normalizers mapped RATE_LIMITED to failed
C13_Witness ==
    /\ n_env # NoEnvelope
    /\ n_env.code = JS("RATE_LIMITED")
    /\ NoObject \notin {n_run, n_status, n_result}
    /\ {n_run.status, n_status.status, n_result.status} = {"failed"}

\* C14: every object a normalizer returns with status failed has a non-null
\* last_error whose code and message are non-null, and every object with
\* status requires_action has a non-null required_action whose message is
\* non-null, whatever the envelope's message, content and content.prompt.
C14_BlocksCarryMessage ==
    \A obj \in Normalized :
        /\ obj.status = "failed" =>
              /\ obj.last_error # JNull
              /\ obj.last_error.code # JNull
              /\ obj.last_error.message # JNull
        /\ obj.status = "requires_action" =>
              /\ obj.required_action # JNull
              /\ obj.required_action.message # JNull

\* data.content of the envelope n_env (None when there is no data block)
EnvelopeContent ==
    IF IsDict(n_env.data) THEN DictGet(n_env.data, "content", JNull) ELSE JNull

\* C15: run, status and result normalization give the same output block for
\* an envelope: the shared content rule applied to data.content when the
\* status is completed or requires_action, and null otherwise.
C15_SameOutputBlock ==
    \A obj \in Normalized :
        obj.output = IF obj.status \in {"completed", "requires_action"}
                     THEN ExtractOutputFromSgContent(EnvelopeContent)
                     ELSE JNull

\* C21: no call of a normalizer on an envelope that is a map raises, whatever
\* the types of its data, metadata, content, message, errors and
\* intermediate_steps: every call returns a normalized object.
C21_NeverRaises ==
    \A obj \in {n_run, n_status, n_result} : obj.t # "raise"

\* the shapes of a content value: exactly one holds of each value
IsResultShaped(c) == IsDict(c) /\ DictGet(c, "type", JNull) = JS("result")
IsResultWithData(c) == IsResultShaped(c) /\ Has(c, "data")

\* the output block of type ty with content c
OutputBlock(ty, c) == [t |-> "dict", type |-> JS(ty), content |-> c]

\* the objects returned with status completed
Completed == {obj \in Normalized : obj.status = "completed"}

\* C22 as stated: the output of a completed object is null for absent or null
\* content, {text, s} for a string s, {json, inner} for a map
\* {type: "result", data: inner}, {json, m} for any other map m, and
\* {text, string form of v} for any other value v.
C22_ContentRuleAsStated ==
    \A obj \in Completed :
        LET c == EnvelopeContent
        IN obj.output =
              IF c = JNull THEN JNull
              ELSE IF IsStr(c) THEN OutputBlock("text", c)
              ELSE IF IsResultWithData(c) THEN OutputBlock("json", c.data)
              ELSE IF IsDict(c) THEN OutputBlock("json", c)
              ELSE OutputBlock("text", PyStr(c))

\* C22 amended: as stated, except that a map whose type is "result" and that
\* holds no data gives {json, {}} and not the map itself.
C22_ContentRule ==
    \A obj \in Completed :
        LET c == EnvelopeContent
        IN obj.output =
              IF c = JNull THEN JNull
              ELSE IF IsStr(c) THEN OutputBlock("text", c)
              ELSE IF IsResultWithData(c) THEN OutputBlock("json", c.data)
              ELSE IF IsResultShaped(c) THEN OutputBlock("json", EmptyDict)
              ELSE IF IsDict(c) THEN OutputBlock("json", c)
              ELSE OutputBlock("text", PyStr(c))

\* C22 witness: the three normalizers returned {json, inner} for a completed
\* envelope whose content is {type: "result", data: inner}
C22_Witness ==
    /\ AllReturned
    /\ Completed = {n_run, n_status, n_result}
    /\ IsResultWithData(EnvelopeContent)
    /\ \A obj \in Completed : obj.output = OutputBlock("json", EnvelopeContent.data)

\* the objects returned with status requires_action
RequiresAction == {obj \in Normalized : obj.status = "requires_action"}

\* the fixed texts a normalizer may fall back to
FallbackMessages ==
    {JS("Additional user input is required."),
     JS("Additional user input is required to continue this task.")}

\* C23: the objects returned for a requires_action envelope carry the same
\* required_action.message: data.content when it is a string; else
\* data.content.prompt when content is a map with a prompt; else the
\* envelope's top-level message when it has one; else one fixed fallback
\* string, the same in run, status and result normalization.
C23_RequiredActionMessage ==
    \E fallback \in FallbackMessages :
        \A obj \in RequiresAction :
            LET c == EnvelopeContent
                m == DictGet(n_env, "message", JNull)
            IN obj.required_action.message =
                  IF IsStr(c) THEN c
                  ELSE IF IsDict(c) /\ Has(c, "prompt") THEN c.prompt
                  ELSE IF Truthy(m) THEN m
                  ELSE fallback

\* C24: two calls of a normalizer with the same agent id and the same
\* envelope return equal objects in every field, id and created_at included,
\* whatever the clock reads at each call, and no call changes the envelope.
C24_Deterministic ==
    /\ [](d_second # NoObject => d_second = d_first)
    /\ [][d_env # NoEnvelope => d_env' = d_env]_vars

\* C28: for a WAITING_USER envelope whose data.content is a prompt string,
\* the run object and the result object both have status requires_action,
\* output null, and the required_action {type: awaiting_user, message: that
\* prompt}.
C28_PromptIsNotOutput ==
    n_env # NoEnvelope /\ n_env.code = JS("WAITING_USER")
        /\ IsStr(EnvelopeContent) /\ Truthy(EnvelopeContent) =>
        \A obj \in {n_run, n_result} \cap Normalized :
            /\ obj.status = "requires_action"
            /\ obj.output = JNull
            /\ obj.required_action
                  = [t |-> "dict", type |-> JS("awaiting_user"),
                     message |-> EnvelopeContent]

\* C30: for an envelope with a failed status, the last_error of the run, the
\* status and the result object holds the envelope's code as code, the
\* envelope's message as message, and the envelope's errors value as details.
C30_LastErrorFromEnvelope ==
    \A obj \in Normalized :
        obj.status = "failed" =>
            /\ obj.last_error # JNull
            /\ obj.last_error.code = n_env.code
            /\ Has(n_env, "message") => obj.last_error.message = n_env.message
            /\ Has(obj.last_error, "details")
            /\ obj.last_error.details = DictGet(n_env, "errors", JNull)

\* a task id that is there: neither missing, null nor empty
PresentId(v) == v \notin {Missing, JNull, JS("")}

\* the envelope's nested and top-level task ids
NestedTaskId ==
    IF Has(n_env, "data") /\ IsDict(n_env.data)
    THEN DictGet(n_env.data, "task_id", Missing) ELSE Missing
TopTaskId == DictGet(n_env, "task_id", Missing)

\* C31: the id of the run, the status and the result object is data.task_id
\* when present, else the envelope's top-level task_id when present, else a
\* synthesized sg_task_<epoch-seconds>; it is never null or empty, and the
\* synthesizing call returns an object.
C31_TaskIdResolution ==
    /\ \A obj \in Normalized :
          /\ obj.id \notin {Missing, JNull, JS("")}
          /\ obj.id = (IF PresentId(NestedTaskId) THEN NestedTaskId
                       ELSE IF PresentId(TopTaskId) THEN TopTaskId
                       ELSE [t |-> "str", s |-> "sg_task_", n |-> obj.id.n])
          /\ ~PresentId(NestedTaskId) /\ ~PresentId(TopTaskId) => obj.id.n \in Clock
    /\ n_env \in TaskIdEnvelopes =>
          \A obj \in {n_run, n_status, n_result} : obj.t \in {"none", "dict"}

\* C31 witness: the nested task id is empty and the top-level one null, and
\* the three objects carry synthesized ids
C31_Witness ==
    /\ AllReturned
    /\ NestedTaskId = JS("") /\ TopTaskId = JNull
    /\ \A obj \in {n_run, n_status, n_result} :
          obj.id.s = "sg_task_" /\ obj.id.n \in Clock

\* the allow-listed fields of the vendor block
AllowListed == {"stage", "code", "progress", "timestamp", "agent", "is_final", "credits_used"}

\* the envelope's block of that name, empty when the envelope has none
BlockOf(name) ==
    IF Has(n_env, name) /\ IsDict(n_env[name]) THEN n_env[name] ELSE EmptyDict

\* block holds field k with a value
HoldsField(block, k) == Has(block, k) /\ block[k] # JNull

\* C32: the vendor block of every normalized object holds exactly
\* the allow-listed fields that the envelope's data or metadata block holds:
\* no other key, no null, and no field of either block lost.
C32_ExtensionsFromBothBlocks ==
    \A obj \in Normalized :
        LET ext == obj.extensions.supplygraph
            data == BlockOf("data")
            meta == BlockOf("metadata")
        IN /\ Keys(ext) = {k \in AllowListed : HoldsField(data, k) \/ HoldsField(meta, k)}
           /\ \A k \in Keys(ext) :
                 /\ ext[k] # JNull
                 /\ \/ HoldsField(data, k) /\ ext[k] = data[k]
                    \/ HoldsField(meta, k) /\ ext[k] = meta[k]

----------------------------------------------------------------------------
(* Properties of the business check of _request_with_retry *)

\* C36: a non-streaming JSON response with HTTP status < 400 whose success
\* flag is true or missing is returned as the call's payload by the attempt
\* that received it (the only attempt, when it is the first), whatever its
\* code, fatal codes included; a call that raises on such a response's
\* business code had a success flag that is neither true nor missing.
C36_FatalCodeNeedsFailure ==
    (c_pc # "idle" /\ ~stream /\ IsBusinessResponse(c_resp)) =>
        /\ c_resp.body.success \in {"true", Absent} =>
              /\ c_pc = "returned"
              /\ c_result = Returned(c_resp.body)
              /\ c_trace[Len(c_trace)] = RequestOp(attempt)
              /\ attempt = 1 => c_trace = <<RequestOp(1)>>
        /\ c_pc = "raised" =>
              /\ c_resp.body.success \notin {"true", Absent}
              /\ c_resp.body.code \in A2A_FATAL_CODES
              /\ c_result.error.api_code = c_resp.body.code

\* C36 witness: a first response with status 200, no success flag and the
\* fatal code TASK_FAILED was returned
C36_Witness ==
    /\ ~stream
    /\ c_pc = "returned"
    /\ attempt = 1
    /\ c_trace = <<RequestOp(1)>>
    /\ IsBusinessResponse(c_resp)
    /\ c_resp.status = 200
    /\ c_resp.body.success = Absent
    /\ c_resp.body.code = "TASK_FAILED"
    /\ c_result.value.code = "TASK_FAILED"

\* C38: a non-streaming response that is a JSON object with HTTP status >=
\* 400 makes the call raise the transport error carrying that status and
\* the body's code, message and errors in the attempt that received it (the
\* only attempt, when it is the first), before the business code is looked
\* at: also when the code is WAITING_USER or INTERPRETING.
C38_HttpStatusBeforeCode ==
    (/\ c_pc # "idle" /\ ~stream
     /\ c_resp.net = "ok" /\ c_resp.isjson /\ c_resp.body.kind = "dict"
     /\ c_resp.status >= 400) =>
        /\ c_pc = "raised"
        /\ c_result.error.type = "SupplyGraphAPIError"
        /\ c_result.error.http_status = c_resp.status
        /\ c_result.error.api_code = c_resp.body.code
        /\ c_result.error.errors = c_resp.body.errors
        /\ c_result.error.message =
              (IF c_resp.body.message = Absent THEN "HTTP error" ELSE c_resp.body.message)
        /\ c_trace[Len(c_trace)] = RequestOp(attempt)
        /\ attempt = 1 => c_trace = <<RequestOp(1)>>

\* C38 witness: a first response with status 404 and the code WAITING_USER
\* raised the transport error with that status and code
C38_Witness ==
    /\ ~stream
    /\ c_pc = "raised"
    /\ attempt = 1
    /\ max_retries = 3
    /\ c_resp.status = 404
    /\ c_resp.isjson /\ c_resp.body.kind = "dict"
    /\ c_resp.body.code = "WAITING_USER"
    /\ c_resp.body.errors = "detail"
    /\ c_result.error.http_status = 404
    /\ c_result.error.api_code = "WAITING_USER"
    /\ c_trace = <<RequestOp(1)>>

----------------------------------------------------------------------------
(* Properties of a client without attempts *)

\* C37: an operation whose arguments are accepted, called on a client
\* configured with max_retries <= 0, makes no HTTP request and no sleep and
\* never returns: its loop has no iteration and the call raises the
\* transport error "Unknown error after retries".
C37_NoAttemptsNoRequest ==
    (/\ a_call # NoCall
     /\ max_retries <= 0
     /\ Validate(a_call.op, a_call.agent_id, a_call.text, a_call.task_id) = NoError) =>
        /\ c_trace = <<>> /\ c_hist = <<>> /\ c_sent = <<>>
        /\ c_pc \in {"attempting", "raised"}
        /\ c_pc = "attempting" => ~ENABLED ClientAttempt /\ ENABLED ClientLoopExhausted
        /\ c_pc = "raised" =>
              c_result = Raised(ApiError("Unknown error after retries", NoStatus,
                                         Absent, Absent, [empty |-> TRUE]))

\* C37 witness: a streaming run of a client with max_retries -1 raised
\* "Unknown error after retries" without a request
C37_Witness ==
    /\ a_call.op = "run" /\ stream /\ max_retries = -1
    /\ c_pc = "raised"
    /\ c_result.error.type = "SupplyGraphAPIError"
    /\ c_result.error.message = "Unknown error after retries"
    /\ c_trace = <<>>

----------------------------------------------------------------------------
(* Properties of the Authorization header *)

\* C33: every HTTP attempt of every operation carries the header
\* Authorization: Bearer <token> when the client has a credential and no
\* Authorization header when it has none, which is not an error; the header
\* is the same on every attempt of one call.
C33_BearerOnEveryAttempt ==
    /\ Len(c_sent) = Len(c_hist)
    /\ \A k \in DOMAIN c_sent :
          /\ api_key \in {NoKey, ""} => c_sent[k].Authorization = Absent
          /\ api_key \notin {NoKey, ""} =>
                c_sent[k].Authorization = "Bearer " \o api_key
          /\ c_sent[k] = c_sent[1]
    /\ /\ api_key \in {NoKey, ""}
       /\ c_pc \in {"returned", "raised"}
       /\ a_call # NoCall
       /\ Validate(a_call.op, a_call.agent_id, a_call.text, a_call.task_id) = NoError
       /\ max_retries > 0
       => c_sent # <<>>

\* C33 witness: a status call of a client with a token made two attempts,
\* each with the header Bearer sk_live
C33_Witness ==
    /\ a_call.op = "status" /\ api_key = "sk_live"
    /\ Len(c_sent) = 2
    /\ c_sent[1].Authorization = "Bearer sk_live"
    /\ c_sent[2].Authorization = "Bearer sk_live"

----------------------------------------------------------------------------
(* Properties of interleaved invocations *)

\* the step.delta frames of one event whose lines are `lines`, from step
\* index si and delta index di
RECURSIVE DeltasAlone(_, _, _)
DeltasAlone(lines, si, di) ==
    IF lines = <<>> THEN <<>>
    ELSE <<DeltaFrame(Head(lines), si, di)>> \o DeltasAlone(Tail(lines), si, di + 1)

\* the frames a generator running alone yields for the events evts, its
\* counters being si and di, up to the end of the events or an "end" event
RECURSIVE FramesAlone(_, _, _)
FramesAlone(evts, si, di) ==
    IF evts = <<>> \/ Head(evts).event = "end" THEN <<>>
    ELSE LET lines == IF Head(evts).event = "stream"
                      THEN ExtractReasoningLines(Head(evts).data) ELSE <<>>
         IN IF lines = <<>> THEN FramesAlone(Tail(evts), si, di)
            ELSE DeltasAlone(lines, si, di) \o <<StepFrame(lines, si)>>
                 \o FramesAlone(Tail(evts), si + 1, di + Len(lines))

\* s is a leading part of t
IsPrefixOf(s, t) == Len(s) <= Len(t) /\ SubSeq(t, 1, Len(s)) = s

\* what a call running alone, after a attempts and with last error le, makes
\* of the outcomes hist: its result, or NoResult while it is still looping
RECURSIVE ResultAlone(_, _, _, _)
ResultAlone(hist, a, le, strm) ==
    IF a >= max_retries THEN LoopExhausted(le)
    ELSE IF hist = <<>> THEN NoResult
    ELSE LET it == Iteration(a + 1, Head(hist), strm, le)
         IN IF it.ends # NoResult THEN it.ends
            ELSE ResultAlone(Tail(hist), a + 1, it.last_error, strm)

\* C25: two generators of one adapter, and two _request_with_retry calls of
\* one client, do not affect each other however their steps interleave: a
\* generator's counters count its own frames from 0 and its frames are those
\* it yields for its own events when run alone; a call's attempt counts its
\* own HTTP attempts and its result is the one it has for its own outcomes
\* when run alone.
C25_NoInterference ==
    \A i \in Invocations :
        /\ p_step_index[LocalsOf(i)]
              = Cardinality({k \in DOMAIN p_out[i] : p_out[i][k].event = "step"})
        /\ p_delta_index[LocalsOf(i)]
              = Cardinality({k \in DOMAIN p_out[i] : p_out[i][k].event = "step.delta"})
        /\ IsPrefixOf(p_out[i], FramesAlone(p_evts[i], 0, 0) \o <<CompletedFrame>>)
        /\ p_pc[i] \in {"loop", "completed"} => p_out[i] = FramesAlone(p_evts[i], 0, 0)
        /\ p_pc[i] = "done" => p_out[i] = FramesAlone(p_evts[i], 0, 0) \o <<CompletedFrame>>
        /\ q_attempt[LocalsOf(i)] = Len(q_hist[i])
        /\ q_pc[i] = "done" =>
              q_result[i] = ResultAlone(q_hist[i], 0, NoError, q_stream[i])
        /\ q_pc[i] = "attempting" /\ q_hist[i] # <<>> =>
              /\ ResultAlone(q_hist[i], 0, NoError, q_stream[i]) = NoResult
              /\ q_last_error[LocalsOf(i)].type = "SupplyGraphAPIError"

\* the reasoning lines of the `stream` events of evts, in order
RECURSIVE TotalLines(_)
TotalLines(evts) ==
    IF evts = <<>> THEN <<>>
    ELSE (IF Head(evts).event = "stream" THEN MapStr(CarriedLines(Head(evts)))
          ELSE <<>>) \o TotalLines(Tail(evts))

\* C29: a finished stream whose `stream` events carried N lines in
\* total holds N + 1 frames: one `step` frame per line, in order, whose
\* content is that line, then one `done` frame with message "stream
\* completed" (alone when N = 0).
C29_StepPerLineThenDone ==
    \A i \in Invocations :
        p_pc[i] = "done" =>
            LET lines == TotalLines(p_evts[i])
                out == p_out[i]
            IN /\ Len(out) = Len(lines) + 1
               /\ \A k \in 1..Len(lines) :
                     out[k].event = "step" /\ out[k].content = lines[k]
               /\ out[Len(out)].event = "done"
               /\ out[Len(out)].message = "stream completed"

\* C25 witness: both generators are suspended in the middle of an event, the
\* first in its second step and the second in its first, each with its own
\* counters
C25_Witness ==
    /\ p_mode = "streams"
    /\ p_pc[1] = "step" /\ p_pc[2] = "delta"
    /\ p_step_index[LocalsOf(1)] = 1 /\ p_step_index[LocalsOf(2)] = 0
    /\ p_delta_index[LocalsOf(1)] = 3 /\ p_delta_index[LocalsOf(2)] = 1
    /\ Len(p_out[1]) = 4 /\ Len(p_out[2]) = 1

----------------------------------------------------------------------------
(* Properties of OpenAIA2AAdapter *)

\* the client raised an exception of the given kind
ClientRaised(api) ==
    /\ o_client.kind = "raise"
    /\ (o_client.error.type = "SupplyGraphAPIError") = api

\* C26: manifest, run, status and result never raise; when the client
\* raises a SupplyGraphAPIError they return an agent.error envelope whose
\* code is the error's API code; when it raises any other exception they
\* return an agent.error envelope with code INTERNAL_ERROR; status and result
\* called with an empty task_id return an agent.error with code
\* INVALID_REQUEST and do not call the client.
C26_NeverRaises ==
    o_call.op \in AdapterOperations =>
        /\ o_result.kind = "return"
        /\ ClientRaised(TRUE) =>
              /\ o_result.value.object = "agent.error"
              /\ o_result.value.code = o_client.error.api_code
        /\ ClientRaised(FALSE) =>
              /\ o_result.value.object = "agent.error"
              /\ o_result.value.code = "INTERNAL_ERROR"
        /\ o_call.op \in {"status", "result"} /\ o_call.task_id \in {JS(""), JNull} =>
              /\ o_client = NoResult
              /\ o_result.value.object = "agent.error"
              /\ o_result.value.code = "INVALID_REQUEST"

\* C27: the consumer of the generator stream returns never sees an
\* exception; when the streaming run fails, at its start or while the
\* stream is consumed, the consumer receives one error frame that carries
\* the agent.error envelope.
C27_StreamErrorsAsFrames ==
    o_call.op = "stream" =>
        /\ o_pc # "raised"
        /\ o_client.kind = "raise" /\ o_pc # "streaming" =>
              /\ Len(o_frames) = 1
              /\ o_frames[1].event = "error"
              /\ o_frames[1].data.object = "agent.error"

====
